---- MODULE Spec2Model ----
(***************************************************************************)
(* The tool-orchestration loops of the agent: process_chat_with_ai         *)
(* (web_server.py) and chat_loop (client.py), with the helpers they use    *)
(* (_strip_surrogates, _sanitize, _to_str, json decoding of the tool-call  *)
(* arguments) and the tool registry of server.py as far as the loops see   *)
(* it.  Strings are sequences of code points; Python values are tagged     *)
(* records; a dict is its insertion-ordered sequence of <<key, value>>.    *)
(* After the loops come the server-side functions the page-content tools   *)
(* are made of (server.py): the Retriever                                  *)
(* _list_block_children_recursive_with_client, the Renderer                *)
(* _blocks_to_markdown with the joining and the plain reduction, and       *)
(* _sanitize on value trees.  Each has a specification of its own:         *)
(* Spec (the loops), SpecRetriever, SpecRenderer, SpecSanitize.            *)
(***************************************************************************)
EXTENDS Integers, Sequences, FiniteSets, TLC

VARIABLES
    program,        \* "web": process_chat_with_ai, "client": chat_loop
    pc,             \* position of the running coroutine
    mcp_client,     \* web_server.mcp_client is set (startup_event ran)
    user_id,        \* caller identity: PyNone or PyStr
    final_cookies,  \* caller credential: a string, "" when absent
    messages,       \* the conversation: sequence of message records
    iteration,      \* process_chat_with_ai's loop counter
    requests,       \* completion requests issued for the current user input
    sent,           \* payload of the last completion request, <<>> before the first
    msg,            \* the completion response being handled
    tool_results,   \* process_chat_with_ai's list of (tc, tname, parsed, result)
    idx,            \* index of the next tool call of msg.tool_calls to dispatch
    inflight,       \* tool calls handed to the executor that have not returned
    rich_used,      \* the completion service has drawn a turn from the whole menu
    result,         \* value returned by the running function, PyNone before
    fault,          \* exception that left the running function, "" when none
    message,        \* the text the exchange is about: the message parameter of
                    \* process_chat_with_ai, user_in of chat_loop
    notion,         \* the content source behind notion_client: the pages of
                    \* each block's child listing, and the listing that fails
    page_id,        \* page_id parameter of the page-content tools
    max_depth,      \* max_depth parameter of the page-content tools
    stack,          \* call frames of _list_block_children_recursive_with_client
    blocks,         \* what the Retriever returned to the tool; the blocks
                    \* parameter of _blocks_to_markdown
    depth,          \* depth parameter of _blocks_to_markdown
    format,         \* format parameter of the page-content tools
    value,          \* the value _sanitize is applied to (its obj parameter)
    tool_list,      \* what mcp_client.list_tools() returns to startup_event
    openai_tools,   \* the global openai_tools of web_server.py
    notion_clients, \* the global notion_clients of server.py
    invocations,    \* the tool invocations that call _get_notion_client, each
                    \* with its position in the function
    constructed,    \* the Client(auth=...) objects constructed so far, each
                    \* named by its place and holding its credential
    chats,          \* the chat requests the web server is handling at once,
                    \* each with its position in process_chat_with_ai and
                    \* the message sequences it has sent
    lists,          \* the message lists of those requests
    NOTION_TOKEN,   \* the environment variable of the server process
    access_token,   \* access_token parameter of get_complete_notion_pages_with_token
    page_ids,       \* its page_ids parameter
    fetched,        \* how many of them its for loop has gone through
    page_results    \* its results list

\* state of the server-side functions (server.py) and of _sanitize
server_vars == <<notion, page_id, max_depth, stack, blocks, depth, format, value>>
\* state of the process outside the requests: the globals set at startup
process_vars == <<tool_list, openai_tools, notion_clients, invocations,
                  constructed, chats, lists, NOTION_TOKEN, access_token,
                  page_ids, fetched, page_results>>
\* state of the two loops
chat_vars == <<mcp_client, user_id, final_cookies, messages, iteration,
               requests, sent, msg, tool_results, idx, inflight, rich_used,
               message>>

vars == <<program, pc, mcp_client, user_id, final_cookies, messages, iteration,
          requests, sent, msg, tool_results, idx, inflight, rich_used, result,
          fault, message, notion, page_id, max_depth, stack, blocks, depth,
          format, value, tool_list, openai_tools, notion_clients, invocations,
          constructed, chats, lists, NOTION_TOKEN, access_token, page_ids,
          fetched, page_results>>

----------------------------------------------------------------------------
(* Bounds of the model. *)

\* most tool calls the completion service puts in one response
MaxCalls == 2
\* last completion response of an exchange that may draw its tool calls from
\* the whole CallMenu; one response of an exchange does, the others request
\* the plain call alone
MaxRichIter == 2
\* completion requests the interactive client is followed for, per user input
MaxClientRequests == 11
\* longest conversation at which the interactive client reads another input
MaxHistory == 3
\* deepest descent a caller asks the Retriever for
MaxDepth == 2
\* most pages of one listing whose request may raise
MaxPages == 2
\* deepest level _blocks_to_markdown is called at from outside
MaxRenderDepth == 2

----------------------------------------------------------------------------
(* Python values. *)

PyNone == [t |-> "none"]
PyStr(s) == [t |-> "str", s |-> s]
PyInt(n) == [t |-> "int", n |-> n]
PyList(l) == [t |-> "list", l |-> l]
PyDict(d) == [t |-> "dict", d |-> d]
\* an object with a .text attribute (a content item of a tool result)
PyObj(text) == [t |-> "obj", text |-> text]

\* truthiness as `if user_id:` and `x or y` test it: None, the empty string,
\* list and dict and the int 0 are false
Truthy(v) ==
    CASE v.t = "none" -> FALSE
      [] v.t = "str"  -> v.s # <<>>
      [] v.t = "list" -> v.l # <<>>
      [] v.t = "dict" -> v.d # <<>>
      [] v.t = "int"  -> v.n # 0
      [] OTHER -> TRUE

\* the keys of _SURR_MAP: range(0xD800, 0xE000)
IsSurrogate(c) == c >= 55296 /\ c < 57344

\* a translation that drops the first surrogate code point only
_strip_first_surrogate(s) ==
    IF \E i \in 1..Len(s) : IsSurrogate(s[i])
    THEN LET i == CHOOSE j \in 1..Len(s) :
                      IsSurrogate(s[j]) /\ \A h \in 1..(j - 1) : ~IsSurrogate(s[h])
         IN  SubSeq(s, 1, i - 1) \o SubSeq(s, i + 1, Len(s))
    ELSE s

_strip_surrogates(s) == SelectSeq(s, LAMBDA c : ~IsSurrogate(c))

\* a dict display or comprehension: the items are stored one after the
\* other; an item whose key is already there replaces that key's value and
\* leaves the key where it is
RECURSIVE DictOf(_, _)
DictOf(items, stored) ==
    IF items = <<>> THEN stored
    ELSE LET k == Head(items)[1]
             v == Head(items)[2]
         IN  DictOf(Tail(items),
                    IF \E i \in 1..Len(stored) : stored[i][1] = k
                    THEN [i \in 1..Len(stored) |->
                            IF stored[i][1] = k THEN <<k, v>> ELSE stored[i]]
                    ELSE Append(stored, <<k, v>>))

RECURSIVE _sanitize(_)
_sanitize(obj) ==
    CASE obj.t = "str"  -> PyStr(_strip_surrogates(obj.s))
      [] obj.t = "list" -> PyList([i \in 1..Len(obj.l) |-> _sanitize(obj.l[i])])
      [] obj.t = "dict" ->
            PyDict(DictOf([i \in 1..Len(obj.d) |->
                             << IF obj.d[i][1].t = "str" THEN _sanitize(obj.d[i][1])
                                                         ELSE obj.d[i][1],
                                _sanitize(obj.d[i][2]) >>],
                          <<>>))
      [] OTHER -> obj

\* dict operations used by the loops: `k in d`, `d[k]`, `d[k] = v`
HasKey(d, k) == \E i \in 1..Len(d.d) : d.d[i][1] = PyStr(k)
GetItem(d, k) == d.d[CHOOSE i \in 1..Len(d.d) : d.d[i][1] = PyStr(k)][2]
SetItem(d, k, v) ==
    IF HasKey(d, k)
    THEN PyDict([i \in 1..Len(d.d) |->
                   IF d.d[i][1] = PyStr(k) THEN <<PyStr(k), v>> ELSE d.d[i]])
    ELSE PyDict(Append(d.d, <<PyStr(k), v>>))

----------------------------------------------------------------------------
(* String literals of the source, as code points. *)

\* the argument and result field names
K ==
    [ user_id |-> <<117, 115, 101, 114, 95, 105, 100>>,  \* "user_id"
      cookies |-> <<99, 111, 111, 107, 105, 101, 115>>,  \* "cookies"
      query |-> <<113, 117, 101, 114, 121>>,  \* "query"
      page_id |-> <<112, 97, 103, 101, 95, 105, 100>>,  \* "page_id"
      text |-> <<116, 101, 120, 116>>,  \* "text"
      error |-> <<101, 114, 114, 111, 114>> ]  \* "error"
\* the words the web loop puts into its messages
L ==
      \* "null"
    [ null |-> <<110, 117, 108, 108>>,
      \* "Not provided"
      not_provided |-> <<78, 111, 116, 32, 112, 114, 111, 118, 105, 100, 101, 100>>,
      \* "{}"
      empty_object |-> <<123, 125>>,
      \* "... Always respond in Korean. Current user ID: "
      system_web |-> <<67, 117, 114, 114, 101, 110, 116, 32, 117, 115, 101, 114, 32, 73, 68, 58, 32>>,
      \* "\nIMPORTANT AUTHENTICATION RULES:\n- User ID: "
      auth_rules |-> <<10, 82, 85, 76, 69, 83, 58, 10, 45, 32, 85, 115, 101, 114, 32, 73, 68, 58, 32>>,
      \* "\n- MANDATORY: ... you MUST include these exact parameters: "
      mandatory |-> <<10, 45, 32, 77, 65, 78, 68, 65, 84, 79, 82, 89, 58, 32>>,
      \* "\n- ALWAYS use ... - Example tool call: notion_search_with_user("
      example |-> <<10, 45, 32, 69, 120, 97, 109, 112, 108, 101, 58, 32, 40>>,
      \* ", query=\"search term\")\n ... automatically added to tool calls if missing.\n"
      note |-> <<41, 10>>,
      \* 'user_id="'
      user_id_eq |-> <<117, 115, 101, 114, 95, 105, 100, 61, 34>>,
      \* ', cookies="'
      cookies_eq |-> <<44, 32, 99, 111, 111, 107, 105, 101, 115, 61, 34>>,
      \* "죄송합니다. 처리 중 문제가 발생했습니다."
      fallback |-> <<51396, 49569, 54633, 45768, 45796, 46, 32, 52376, 47532, 32, 51473, 32, 47928, 51228, 44032, 32, 48156, 49373, 54664, 49845, 45768, 45796, 46>> ]

\* the names of the tools
T ==
    [ get_user_info |-> <<103, 101, 116, 95, 117, 115, 101, 114, 95, 105, 110, 102, 111>>,
      save_notion_data_to_backend |-> <<115, 97, 118, 101, 95, 110, 111, 116, 105, 111, 110, 95, 100, 97, 116, 97, 95, 116, 111, 95, 98, 97, 99, 107, 101, 110, 100>>,
      save_bulk_notion_data_to_backend |-> <<115, 97, 118, 101, 95, 98, 117, 108, 107, 95, 110, 111, 116, 105, 111, 110, 95, 100, 97, 116, 97, 95, 116, 111, 95, 98, 97, 99, 107, 101, 110, 100>>,
      get_all_notion_pages |-> <<103, 101, 116, 95, 97, 108, 108, 95, 110, 111, 116, 105, 111, 110, 95, 112, 97, 103, 101, 115>>,
      get_notion_page_by_id |-> <<103, 101, 116, 95, 110, 111, 116, 105, 111, 110, 95, 112, 97, 103, 101, 95, 98, 121, 95, 105, 100>>,
      update_notion_page |-> <<117, 112, 100, 97, 116, 101, 95, 110, 111, 116, 105, 111, 110, 95, 112, 97, 103, 101>>,
      delete_notion_page |-> <<100, 101, 108, 101, 116, 101, 95, 110, 111, 116, 105, 111, 110, 95, 112, 97, 103, 101>>,
      create_mindmap |-> <<99, 114, 101, 97, 116, 101, 95, 109, 105, 110, 100, 109, 97, 112>>,
      get_mindmap |-> <<103, 101, 116, 95, 109, 105, 110, 100, 109, 97, 112>>,
      delete_mindmap |-> <<100, 101, 108, 101, 116, 101, 95, 109, 105, 110, 100, 109, 97, 112>>,
      get_complete_notion_pages_with_token |-> <<103, 101, 116, 95, 99, 111, 109, 112, 108, 101, 116, 101, 95, 110, 111, 116, 105, 111, 110, 95, 112, 97, 103, 101, 115, 95, 119, 105, 116, 104, 95, 116, 111, 107, 101, 110>>,
      notion_search_with_token |-> <<110, 111, 116, 105, 111, 110, 95, 115, 101, 97, 114, 99, 104, 95, 119, 105, 116, 104, 95, 116, 111, 107, 101, 110>>,
      notion_page_content_with_token |-> <<110, 111, 116, 105, 111, 110, 95, 112, 97, 103, 101, 95, 99, 111, 110, 116, 101, 110, 116, 95, 119, 105, 116, 104, 95, 116, 111, 107, 101, 110>>,
      notion_page_content |-> <<110, 111, 116, 105, 111, 110, 95, 112, 97, 103, 101, 95, 99, 111, 110, 116, 101, 110, 116>>,
      notion_search |-> <<110, 111, 116, 105, 111, 110, 95, 115, 101, 97, 114, 99, 104>>,
      notion_append_paragraph |-> <<110, 111, 116, 105, 111, 110, 95, 97, 112, 112, 101, 110, 100, 95, 112, 97, 114, 97, 103, 114, 97, 112, 104>>,
      notion_search_with_user |-> <<110, 111, 116, 105, 111, 110, 95, 115, 101, 97, 114, 99, 104, 95, 119, 105, 116, 104, 95, 117, 115, 101, 114>>,
      notion_page_content_with_user |-> <<110, 111, 116, 105, 111, 110, 95, 112, 97, 103, 101, 95, 99, 111, 110, 116, 101, 110, 116, 95, 119, 105, 116, 104, 95, 117, 115, 101, 114>> ]

\* the tools server.py registers with @mcp.tool, in definition order
RegistryTools ==
    << T.get_user_info,
       T.save_notion_data_to_backend,
       T.save_bulk_notion_data_to_backend,
       T.get_all_notion_pages,
       T.get_notion_page_by_id,
       T.update_notion_page,
       T.delete_notion_page,
       T.create_mindmap,
       T.get_mindmap,
       T.delete_mindmap,
       T.get_complete_notion_pages_with_token,
       T.notion_search_with_token,
       T.notion_page_content_with_token,
       T.notion_page_content,
       T.notion_search,
       T.notion_append_paragraph >>

\* the registered tools that declare a user_id parameter
UserIdTools ==
    { T.get_user_info,
      T.save_notion_data_to_backend,
      T.save_bulk_notion_data_to_backend,
      T.get_all_notion_pages,
      T.get_notion_page_by_id,
      T.update_notion_page,
      T.delete_notion_page,
      T.create_mindmap,
      T.get_mindmap,
      T.delete_mindmap }

\* the names process_chat_with_ai adds the caller's identity for
AutoAuthTools ==
    { T.get_user_info, T.notion_search_with_user, T.notion_page_content_with_user }

----------------------------------------------------------------------------
(* json.dumps(v, ensure_ascii=False) and json.loads, on the values the     *)
(* loops serialise.  With ensure_ascii=False a code point above ASCII,     *)
(* a lone surrogate included, is written as it is.                         *)

RECURSIVE JoinTexts(_, _)
JoinTexts(texts, sep) ==
    IF texts = <<>> THEN <<>>
    ELSE IF Len(texts) = 1 THEN texts[1]
    ELSE texts[1] \o sep \o JoinTexts(Tail(texts), sep)

\* json.dumps raises TypeError on a value it has no encoding for
RECURSIVE Serializable(_)
Serializable(v) ==
    CASE v.t \in {"none", "str", "int"} -> TRUE
      [] v.t = "list" -> \A i \in 1..Len(v.l) : Serializable(v.l[i])
      [] v.t = "dict" -> \A i \in 1..Len(v.d) : Serializable(v.d[i][2])
      [] OTHER -> FALSE

RECURSIVE json_dumps(_)
json_dumps(v) ==
    CASE v.t = "none" -> L.null
      [] v.t = "str"  -> <<34>> \o v.s \o <<34>>
      [] v.t = "int"  -> <<48 + v.n>>
      [] v.t = "list" ->
            <<91>> \o JoinTexts([i \in 1..Len(v.l) |-> json_dumps(v.l[i])], <<44, 32>>)
                   \o <<93>>
      [] v.t = "dict" ->
            <<123>> \o JoinTexts([i \in 1..Len(v.d) |->
                                    json_dumps(v.d[i][1]) \o <<58, 32>>
                                        \o json_dumps(v.d[i][2])], <<44, 32>>)
                    \o <<125>>

\* argument values the completion service may send, decoded
A ==
      \* the values the argument texts of the modelled tool calls encode
    [ empty |-> PyDict(<<>>),
      query |-> PyDict(<< <<PyStr(K.query), PyStr(<<110>>)>> >>),
      query_surrogate |-> PyDict(<< <<PyStr(K.query), PyStr(<<110, 56320, 111>>)>> >>),
      own_auth |-> PyDict(<< <<PyStr(K.user_id), PyStr(<<120>>)>>, <<PyStr(K.cookies), PyStr(<<121>>)>> >>),
      page |-> PyDict(<< <<PyStr(K.page_id), PyStr(<<112>>)>>, <<PyStr(K.text), PyStr(<<116>>)>> >>),
      list |-> PyList(<<PyInt(1)>>) ]

JSONValues == {A.empty, A.query, A.query_surrogate, A.own_auth, A.page, A.list}

\* a text json.loads rejects: an object that is never closed
MalformedText == <<123, 34, 113>>

\* json.loads(s): the value s encodes, or JSONDecodeError
json_loads(s) ==
    IF \E v \in JSONValues : json_dumps(v) = s
    THEN [ok |-> TRUE, v |-> CHOOSE v \in JSONValues : json_dumps(v) = s]
    ELSE [ok |-> FALSE]

\* str(d) of a value json.dumps cannot encode
PyRepr(v) == IF v.t = "opaque" THEN v.repr ELSE json_dumps(v)

_to_str(res) ==
    IF res.t = "str" THEN _strip_surrogates(res.s)
    ELSE IF res.t = "obj" THEN _strip_surrogates(res.text)
    ELSE IF Serializable(_sanitize(res))
         THEN _strip_surrogates(json_dumps(_sanitize(res)))
         ELSE _strip_surrogates(PyRepr(res))


----------------------------------------------------------------------------
(* Literals of the two loops.  The long fixed instruction texts are kept   *)
(* by their last words; they are ASCII and take no part in any decision.   *)

max_iterations == 10

\* "You are a helpful assistant. ... 지원 언어: 한국어와 영어."
L_system_client ==
    <<89, 111, 117, 32, 97, 114, 101, 32, 97, 32, 104, 101, 108, 112, 102,
      117, 108, 32, 97, 115, 115, 105, 115, 116, 97, 110, 116, 46>>


----------------------------------------------------------------------------
(* The inputs: what the caller, the completion service and the tools may   *)
(* hand to the loops.                                                      *)

\* the value of the NOTION_TOKEN environment variable, and a token a caller
\* passes as access_token
Credentials == [env |-> <<101>>, given |-> <<103>>]

\* the tools defined with def, not async def (lines 993, 1057): they read the
\* credential from NOTION_TOKEN
SyncTools == { T.notion_page_content, T.notion_search }

\* user input texts: plain, and with a lone high surrogate in the middle
UserTexts == { <<104, 105>>, <<104, 55357, 105>> }
\* caller identity and credential of a chat request
UserIds == { PyNone, PyStr(<<>>), PyStr(<<117, 49>>) }
CookieValues == { PyNone, PyStr(<<115, 61, 49>>) }

Call(name, arguments) == [name |-> name, arguments |-> arguments]

\* the ordinary call: a search with a well-formed query
PlainCall == Call(T.notion_search, json_dumps(A.query))

\* the other calls a response may carry
CallMenu ==
    { Call(T.get_user_info, json_dumps(A.empty)),
      Call(T.get_user_info, json_dumps(A.own_auth)),
      Call(T.get_user_info, MalformedText),
      Call(T.get_user_info, json_dumps(A.list)),
      Call(T.notion_search_with_user, <<>>),
      Call(T.save_notion_data_to_backend, json_dumps(A.empty)),
      Call(T.notion_search, json_dumps(A.query_surrogate)),
      Call(T.notion_append_paragraph, json_dumps(A.page)) }

\* the id the completion service gives the i-th call of its r-th response
CallId(r, i) == <<99, 48 + r, 48 + i>>

\* the tool_calls of the r-th response: the plain call alone, or (`rich`)
\* up to MaxCalls calls of which the last is any call of the menu
Turns(r, rich) ==
    { [i \in 1..n |->
         [id |-> CallId(r, i),
          name |-> (IF i < n THEN PlainCall ELSE c).name,
          arguments |-> (IF i < n THEN PlainCall ELSE c).arguments]] :
      n \in 1..(IF rich THEN MaxCalls ELSE 1),
      c \in (IF rich THEN CallMenu \cup {PlainCall} ELSE {PlainCall}) }

IsPlainTurn(tool_calls) ==
    /\ Len(tool_calls) = 1
    /\ Call(tool_calls[1].name, tool_calls[1].arguments) = PlainCall

\* msg.content of a response without tool calls
FinalContents == { PyNone, PyStr(<<100, 111, 110, 101>>), PyStr(<<100, 56320, 111>>) }

Responses(r, rich) ==
    { [tool_calls |-> t, content |-> PyNone] : t \in Turns(r, rich) }
        \cup { [tool_calls |-> <<>>, content |-> c] : c \in FinalContents }

\* what a tool hands back: a content item whose text holds a lone surrogate,
\* the {"error": ...} record the tools of server.py return on failure, and
\* what notion_search returns when _ensure_notion raises
\* ([{"error": "Notion API error: NOTION_TOKEN ..."}])
R ==
    [ ok |-> PyObj(<<111, 107, 56832>>),
      error |-> PyDict(<< <<PyStr(K.error), PyStr(<<102, 97, 105, 108>>)>> >>),
      no_token |-> PyList(<< PyDict(<< <<PyStr(K.error),
                                         PyStr(<<78, 111, 116, 105, 111, 110, 32, 65, 80, 73, 32, 101, 114, 114, 111, 114, 58, 32, 78, 79, 84, 73, 79, 78, 95, 84, 79, 75, 69, 78>>)>> >>) >>) ]

\* a call can hand back a result when the registry has the tool and the tool
\* can return: notion_append_paragraph reads the global `notion`, which
\* server.py never binds, outside any try, and raises on every call
CanReturn(tname) ==
    /\ \E k \in 1..Len(RegistryTools) : RegistryTools[k] = tname
    /\ tname # T.notion_append_paragraph

\* the results followed for the i-th call of a turn: both for the last call
\* of a turn drawn from the menu, the content item for every other call
ToolResults(tool_calls, i, tname) ==
    IF ~CanReturn(tname) THEN {}
    ELSE IF tname \in SyncTools /\ ~Truthy(NOTION_TOKEN) THEN {R.no_token}
    ELSE IF ~IsPlainTurn(tool_calls) /\ i = Len(tool_calls) THEN {R.ok, R.error}
    ELSE {R.ok}

\* whether the next response may be drawn from the whole menu
MayBeRich(r, used) == ~used /\ r <= MaxRichIter

----------------------------------------------------------------------------
(* Helpers of the loops. *)

\* messages=_sanitize(messages): every string of every message is stripped
SanitizeToolCall(c) ==
    [id |-> _strip_surrogates(c.id), type |-> c.type,
     function |-> [name |-> _strip_surrogates(c.function.name),
                   arguments |-> _strip_surrogates(c.function.arguments)]]

SanitizeMessage(m) ==
    [f \in DOMAIN m |->
        CASE f \in {"content", "tool_call_id", "name"} -> _strip_surrogates(m[f])
          [] f = "tool_calls" ->
                [i \in 1..Len(m[f]) |-> SanitizeToolCall(m[f][i])]
          [] OTHER -> m[f]]

SanitizeMessages(ms) == [i \in 1..Len(ms) |-> SanitizeMessage(ms[i])]

\* auth_instruction of the system message
AuthInstructionWithoutCookies(uid, cookies) == L.user_id_eq \o uid \o <<34>>
AuthInstruction(uid, cookies) ==
    L.user_id_eq \o uid \o <<34>>
        \o (IF cookies # <<>> THEN L.cookies_eq \o cookies \o <<34>> ELSE <<>>)

\* the two messages process_chat_with_ai starts from
SeedMessages(text, uid, cookies) ==
    << [role |-> "system",
        content |->
            L.system_web
              \o (IF Truthy(uid) THEN uid.s ELSE L.not_provided)
              \o (IF Truthy(uid)
                  THEN L.auth_rules \o uid.s
                         \o L.mandatory \o AuthInstruction(uid.s, cookies)
                         \o L.example \o AuthInstruction(uid.s, cookies) \o L.note
                  ELSE <<>>)],
       [role |-> "user", content |-> _strip_surrogates(text)] >>

\* targs = tc.function.arguments or "{}"; json.loads, {} on JSONDecodeError
ParseArguments(arguments) ==
    LET targs == IF arguments # <<>> THEN arguments ELSE L.empty_object
        dec == json_loads(targs)
    IN  IF dec.ok THEN dec.v ELSE A.empty

\* the names whose calls get the caller's identity added
NeedsAuth(tname) == tname \in AutoAuthTools

\* an injection that assigns the two fields without testing for them
InjectAuthAssigning(tname, parsed, uid, cookies) ==
    IF Truthy(uid) /\ NeedsAuth(tname)
    THEN IF parsed.t # "dict" THEN [ok |-> FALSE]
         ELSE [ok |-> TRUE,
               v |-> IF cookies # <<>>
                     THEN SetItem(SetItem(parsed, K.user_id, uid),
                                  K.cookies, PyStr(cookies))
                     ELSE SetItem(parsed, K.user_id, uid)]
    ELSE [ok |-> TRUE, v |-> parsed]

\* lines 212-217: [ok |-> FALSE] stands for the TypeError that `in` or the
\* item assignment raises on a value that is no dict
InjectAuth(tname, parsed, uid, cookies) ==
    IF Truthy(uid) /\ NeedsAuth(tname)
    THEN IF parsed.t # "dict" THEN [ok |-> FALSE]
         ELSE LET p1 == IF ~HasKey(parsed, K.user_id)
                        THEN SetItem(parsed, K.user_id, uid) ELSE parsed
                  p2 == IF cookies # <<>> /\ ~HasKey(p1, K.cookies)
                        THEN SetItem(p1, K.cookies, PyStr(cookies)) ELSE p1
              IN  [ok |-> TRUE, v |-> p2]
    ELSE [ok |-> TRUE, v |-> parsed]

\* `await`: the statement after a call runs once the call has returned
AwaitedNoWait(calls) == TRUE
Awaited(calls) == calls = {}

\* messages.append(...): the new messages go after the ones already there
ExtendOverLast(ms, new) == SubSeq(ms, 1, Len(ms) - 1) \o new
Extend(ms, new) == ms \o new

\* while iteration < max_iterations
LoopCondition(i) == i < max_iterations

AssistantCall(id, tname, parsed) ==
    [id |-> id, type |-> "function",
     function |-> [name |-> tname,
                   arguments |-> json_dumps(parsed)]]

ToolMessage(id, tname, res) ==
    [role |-> "tool", tool_call_id |-> id, name |-> tname, content |-> _to_str(res)]

\* lines 225-248: one assistant message for the turn, then its tool results
TurnMessagesPerCall(results) ==
    IF results = <<>> THEN <<>>
    ELSE << [role |-> "assistant",
             tool_calls |-> << AssistantCall(results[1].tc.id, results[1].tname,
                                             results[1].parsed) >>],
            [role |-> "assistant",
             tool_calls |-> [i \in 1..(Len(results) - 1) |->
                               AssistantCall(results[i + 1].tc.id,
                                             results[i + 1].tname,
                                             results[i + 1].parsed)]] >>
           \o [i \in 1..Len(results) |->
                 ToolMessage(results[i].tc.id, results[i].tname, results[i].result)]
TurnMessages(results) ==
    << [role |-> "assistant",
        tool_calls |-> [i \in 1..Len(results) |->
                          AssistantCall(results[i].tc.id, results[i].tname,
                                        results[i].parsed)]] >>
      \o [i \in 1..Len(results) |->
            ToolMessage(results[i].tc.id, results[i].tname, results[i].result)]

\* client.py lines 141-161: an assistant message and a tool message per call
CallMessages(c, res) ==
    << [role |-> "assistant",
        tool_calls |-> << AssistantCall(c.tc.id, c.tname, c.parsed) >>],
       ToolMessage(c.tc.id, c.tname, res) >>

\* final_text = msg.content or ""
FinalText(m) == IF Truthy(m.content) THEN m.content.s ELSE <<>>


----------------------------------------------------------------------------
(* State after construction: web_server after startup_event (or after a    *)
(* failed one), the client after it built its system message.              *)

\* the globals as the module bodies leave them (web_server.py line 34,
\* server.py line 20), and no tool invoked and no request arrived
ProcessIdle ==
    /\ openai_tools = <<>>
    /\ notion_clients = <<>>
    /\ invocations = <<>>
    /\ constructed = <<>>
    /\ chats = <<>>
    /\ lists = <<>>
    /\ access_token = <<>>
    /\ page_ids = <<>>
    /\ fetched = 0
    /\ page_results = <<>>

\* no server-side function is running
ServerIdle ==
    /\ notion = <<>>
    /\ page_id = ""
    /\ max_depth = 0
    /\ stack = <<>>
    /\ blocks = <<>>
    /\ depth = 0
    /\ format = <<>>
    /\ value = PyNone

Init ==
    /\ program \in {"web", "client"}
    /\ ProcessIdle
    /\ tool_list = <<>>
    /\ NOTION_TOKEN \in {PyNone, PyStr(Credentials.env)}
    /\ mcp_client \in BOOLEAN
    /\ (program = "client" => mcp_client)
    /\ pc = IF program = "web" THEN "idle" ELSE "input"
    /\ user_id = PyNone
    /\ final_cookies = <<>>
    /\ messages = IF program = "web" THEN <<>>
                  ELSE << [role |-> "system", content |-> L_system_client] >>
    /\ iteration = 0
    /\ requests = 0
    /\ sent = <<>>
    /\ msg = [tool_calls |-> <<>>, content |-> PyNone]
    /\ tool_results = <<>>
    /\ idx = 1
    /\ inflight = {}
    /\ rich_used = FALSE
    /\ result = PyNone
    /\ fault = ""
    /\ message = <<>>
    /\ ServerIdle

----------------------------------------------------------------------------
(* process_chat_with_ai (web_server.py). *)

\* lines 143-187: the guard on mcp_client, the seeding, the loop variables
StartChat(text, uid, cookies) ==
    /\ program = "web" /\ pc = "idle"
    /\ message' = text
    /\ IF ~mcp_client
       THEN /\ pc' = "raised"
            /\ fault' = "HTTPException"
            /\ UNCHANGED <<user_id, final_cookies, messages>>
       ELSE /\ pc' = "loop"
            /\ user_id' = uid
            /\ final_cookies' = (IF Truthy(cookies) THEN cookies.s ELSE <<>>)
            /\ messages' = SeedMessages(text, uid,
                                        IF Truthy(cookies) THEN cookies.s ELSE <<>>)
            /\ fault' = fault
    /\ UNCHANGED <<server_vars, program, process_vars, rich_used, mcp_client, iteration, requests, sent, msg,
                   tool_results, idx, inflight, result>>

\* lines 189-196: one more cycle, the request goes out
RequestCompletion ==
    /\ program = "web" /\ pc = "loop"
    /\ LoopCondition(iteration)
    /\ iteration' = iteration + 1
    /\ requests' = requests + 1
    /\ sent' = SanitizeMessages(messages)
    /\ pc' = "await_completion"
    /\ UNCHANGED <<server_vars, message, program, process_vars, rich_used, mcp_client, user_id, final_cookies, messages, msg,
                   tool_results, idx, inflight, result, fault>>

\* line 260: the loop ran out
ReturnFallback ==
    /\ program = "web" /\ pc = "loop"
    /\ ~LoopCondition(iteration)
    /\ result' = PyStr(L.fallback)
    /\ pc' = "done"
    /\ UNCHANGED <<server_vars, message, program, process_vars, rich_used, mcp_client, user_id, final_cookies, messages,
                   iteration, requests, sent, msg, tool_results, idx, inflight,
                   fault>>

\* lines 197-202 and 256-258: the response arrives
CompletionResponds(resp) ==
    /\ program = "web" /\ pc = "await_completion"
    /\ msg' = resp
    /\ rich_used' = (rich_used \/ (resp.tool_calls # <<>> /\ ~IsPlainTurn(resp.tool_calls)))
    /\ IF resp.tool_calls # <<>>
       THEN /\ tool_results' = <<>>
            /\ idx' = 1
            /\ pc' = "tools"
            /\ result' = result
       ELSE /\ result' = PyStr(_strip_surrogates(FinalText(resp)))
            /\ pc' = "done"
            /\ UNCHANGED <<tool_results, idx>>
    /\ UNCHANGED <<server_vars, message, program, process_vars, mcp_client, user_id, final_cookies, messages,
                   iteration, requests, sent, inflight, fault>>

\* line 192 (client.py line 119): the completion request itself fails
CompletionRaises ==
    /\ pc = "await_completion"
    /\ pc' = "raised"
    /\ fault' = "APIError"
    /\ UNCHANGED <<server_vars, message, program, process_vars, rich_used, mcp_client, user_id, final_cookies, messages,
                   iteration, requests, sent, msg, tool_results, idx, inflight,
                   result>>

\* lines 203-221: decode the arguments, add the identity, hand the call over
DispatchTool ==
    /\ program = "web" /\ pc = "tools"
    /\ idx <= Len(msg.tool_calls)
    /\ Awaited(inflight)
    /\ LET tc == msg.tool_calls[idx]
           inj == InjectAuth(tc.name, ParseArguments(tc.arguments),
                             user_id, final_cookies)
       IN  IF inj.ok
           THEN /\ inflight' = inflight \cup
                        {[i |-> idx, tc |-> tc, tname |-> tc.name, parsed |-> inj.v]}
                /\ idx' = idx + 1
                /\ UNCHANGED <<pc, fault>>
           ELSE /\ pc' = "raised"
                /\ fault' = "TypeError"
                /\ UNCHANGED <<inflight, idx>>
    /\ UNCHANGED <<server_vars, message, program, process_vars, rich_used, mcp_client, user_id, final_cookies, messages,
                   iteration, requests, sent, msg, tool_results, result>>

\* a return that appends the messages of the call at once, as chat_loop does
ToolReturnsAppending(c, res) ==
    /\ program = "web" /\ pc = "tools"
    /\ c \in inflight
    /\ res \in ToolResults(msg.tool_calls, c.i, c.tname)
    /\ tool_results' = Append(tool_results,
                              [tc |-> c.tc, tname |-> c.tname, parsed |-> c.parsed,
                               result |-> res])
    /\ messages' = Extend(messages, << ToolMessage(c.tc.id, c.tname, res) >>)
    /\ inflight' = inflight \ {c}
    /\ UNCHANGED <<server_vars, message, program, process_vars, rich_used, pc,
                   mcp_client, user_id, final_cookies, iteration, requests, sent,
                   msg, idx, result, fault>>

\* lines 221-222: the call returns and its result is kept
ToolReturns(c, res) ==
    /\ program = "web" /\ pc = "tools"
    /\ c \in inflight
    /\ res \in ToolResults(msg.tool_calls, c.i, c.tname)
    /\ tool_results' = Append(tool_results,
                              [tc |-> c.tc, tname |-> c.tname, parsed |-> c.parsed,
                               result |-> res])
    /\ inflight' = inflight \ {c}
    /\ UNCHANGED <<server_vars, message, program, process_vars, rich_used, pc, mcp_client, user_id, final_cookies, messages,
                   iteration, requests, sent, msg, idx, result, fault>>

\* line 221 (client.py line 138): call_tool raises
ToolRaises(c) ==
    /\ pc = "tools"
    /\ c \in inflight
    /\ pc' = "raised"
    /\ fault' = "ToolError"
    /\ UNCHANGED <<server_vars, message, program, process_vars, rich_used, mcp_client, user_id, final_cookies, messages,
                   iteration, requests, sent, msg, tool_results, idx, inflight,
                   result>>

\* lines 224-254: the turn's messages are appended, back to the loop head
AppendTurn ==
    /\ program = "web" /\ pc = "tools"
    /\ idx > Len(msg.tool_calls)
    /\ Awaited(inflight)
    /\ messages' = Extend(messages, TurnMessages(tool_results))
    /\ pc' = "loop"
    /\ UNCHANGED <<server_vars, message, program, process_vars, rich_used, mcp_client, user_id, final_cookies, iteration,
                   requests, sent, msg, tool_results, idx, inflight, result, fault>>

----------------------------------------------------------------------------
(* chat_loop (client.py). *)

\* lines 107-115: a non-empty input that is no exit command
ClientUserInput(user_in) ==
    /\ program = "client" /\ pc = "input"
    /\ Len(messages) <= MaxHistory
    /\ messages' = Extend(messages,
                          << [role |-> "user",
                              content |-> _strip_surrogates(user_in)] >>)
    /\ requests' = 0
    /\ rich_used' = FALSE
    /\ pc' = "loop"
    /\ message' = user_in
    /\ UNCHANGED <<server_vars, program, process_vars, mcp_client, user_id, final_cookies, iteration, sent,
                   msg, tool_results, idx, inflight, result, fault>>

\* lines 110-112: /exit or /quit
ClientExit ==
    /\ program = "client" /\ pc = "input"
    /\ pc' = "done"
    /\ UNCHANGED <<server_vars, message, program, process_vars, rich_used, mcp_client, user_id, final_cookies, messages,
                   iteration, requests, sent, msg, tool_results, idx, inflight,
                   result, fault>>

\* lines 118-123: `while True`, the request goes out
ClientRequest ==
    /\ program = "client" /\ pc = "loop"
    /\ requests < MaxClientRequests
    /\ requests' = requests + 1
    /\ sent' = SanitizeMessages(messages)
    /\ pc' = "await_completion"
    /\ UNCHANGED <<server_vars, message, program, process_vars, rich_used, mcp_client, user_id, final_cookies, messages,
                   iteration, msg, tool_results, idx, inflight, result, fault>>

\* lines 124-127 and 165-169: the response arrives
ClientResponds(resp) ==
    /\ program = "client" /\ pc = "await_completion"
    /\ msg' = resp
    /\ rich_used' = (rich_used \/ (resp.tool_calls # <<>> /\ ~IsPlainTurn(resp.tool_calls)))
    /\ IF resp.tool_calls # <<>>
       THEN /\ idx' = 1
            /\ pc' = "tools"
            /\ messages' = messages
       ELSE /\ messages' = Extend(messages,
                                  << [role |-> "assistant",
                                      content |->
                                          _strip_surrogates(FinalText(resp))] >>)
            /\ pc' = "input"
            /\ idx' = idx
    /\ UNCHANGED <<server_vars, message, program, process_vars, mcp_client, user_id, final_cookies, iteration,
                   requests, sent, tool_results, inflight, result, fault>>

\* lines 129-138: decode the arguments, hand the call over
ClientDispatch ==
    /\ program = "client" /\ pc = "tools"
    /\ idx <= Len(msg.tool_calls)
    /\ Awaited(inflight)
    /\ LET tc == msg.tool_calls[idx]
       IN  inflight' = inflight \cup
               {[i |-> idx, tc |-> tc, tname |-> tc.name,
                 parsed |-> ParseArguments(tc.arguments)]}
    /\ idx' = idx + 1
    /\ UNCHANGED <<server_vars, message, program, process_vars, rich_used, pc, mcp_client, user_id, final_cookies, messages,
                   iteration, requests, sent, msg, tool_results, result, fault>>

\* lines 138-163: the call returns, its two messages are appended; after the
\* last call of the turn, back to the loop head
ClientToolReturns(c, res) ==
    /\ program = "client" /\ pc = "tools"
    /\ c \in inflight
    /\ res \in ToolResults(msg.tool_calls, c.i, c.tname)
    /\ messages' = Extend(messages, CallMessages(c, res))
    /\ inflight' = inflight \ {c}
    /\ pc' = IF idx > Len(msg.tool_calls) /\ inflight' = {} THEN "loop" ELSE "tools"
    /\ UNCHANGED <<server_vars, message, program, process_vars, rich_used, mcp_client, user_id, final_cookies, iteration,
                   requests, sent, msg, tool_results, idx, result, fault>>

----------------------------------------------------------------------------

Next ==
    \/ \E text \in UserTexts, uid \in UserIds, cookies \in CookieValues :
           StartChat(text, uid, cookies)
    \/ RequestCompletion
    \/ ReturnFallback
    \/ \E resp \in Responses(requests, MayBeRich(requests, rich_used)) : CompletionResponds(resp)
    \/ CompletionRaises
    \/ DispatchTool
    \/ \E c \in inflight : \E res \in {R.ok, R.error, R.no_token} : ToolReturns(c, res)
    \/ \E c \in inflight : ToolRaises(c)
    \/ AppendTurn
    \/ \E user_in \in UserTexts : ClientUserInput(user_in)
    \/ ClientExit
    \/ ClientRequest
    \/ \E resp \in Responses(requests, MayBeRich(requests, rich_used)) : ClientResponds(resp)
    \/ ClientDispatch
    \/ \E c \in inflight : \E res \in {R.ok, R.error, R.no_token} : ClientToolReturns(c, res)

Spec == Init /\ [][Next]_vars


----------------------------------------------------------------------------
(* The Retriever: _list_block_children_recursive_with_client (server.py).  *)
(* The content source is notion_client.blocks.children.list; a cursor is   *)
(* the number of the page it asks for.  A call frame holds the locals of   *)
(* one activation; stack[Len(stack)] is the running one.                   *)

\* a block as the source lists it
RawBlock(id, has_children) ==
    [id |-> id, type |-> "paragraph", has_children |-> has_children]

\* the listings: a page with two children that have children of their own,
\* one of them listed over two pages, "c" flagged has_children and listing
\* nothing; a block that lists its own parent among its children; three
\* pages at the top with a chain of four levels below the second
Listings ==
    { [r |-> << <<RawBlock("a", TRUE), RawBlock("b", TRUE)>> >>,
       a |-> << <<RawBlock("c", TRUE)>> >>,
       b |-> << <<RawBlock("d", FALSE)>>, <<RawBlock("e", FALSE)>> >>,
       c |-> << >>],
      [r |-> << <<RawBlock("a", TRUE)>>, <<RawBlock("b", FALSE)>> >>,
       a |-> << <<RawBlock("r", TRUE)>> >>],
      [r |-> << <<RawBlock("a", FALSE)>>, <<RawBlock("b", TRUE)>>,
                <<RawBlock("c", FALSE)>> >>,
       b |-> << <<RawBlock("d", TRUE)>> >>,
       d |-> << <<RawBlock("e", TRUE)>> >>,
       e |-> << <<RawBlock("f", FALSE)>> >>] }

\* number of list requests that read the whole listing of id
PageCount(pages, id) == IF Len(pages[id]) = 0 THEN 1 ELSE Len(pages[id])

\* the sources: a listing, and at most one request of it that raises
Sources ==
    { [pages |-> pg, fails |-> f, calls |-> <<>>] :
        pg \in Listings,
        f \in {{}} \cup
              UNION { { {<<id, k>>} : k \in 1..MaxPages } : id \in {"r", "a", "b", "d"} } }

\* notion_client.blocks.children.list(block_id=, start_cursor=, page_size=100)
\* [ok |-> FALSE] is the APIResponseError of the client library
children_list(src, block_id, start_cursor) ==
    LET k == IF start_cursor = PyNone THEN 1 ELSE start_cursor.n
        n == Len(src.pages[block_id])
    IN  IF <<block_id, k>> \in src.fails THEN [ok |-> FALSE]
        ELSE [ok |-> TRUE,
              resp |-> [results |-> IF n = 0 THEN <<>> ELSE src.pages[block_id][k],
                        has_more |-> k < n,
                        next_cursor |-> IF k < n THEN PyInt(k + 1) ELSE PyNone]]

\* lines 101-104: the locals of a fresh activation
Frame(block_id, remaining) ==
    [block_id |-> block_id, max_depth |-> remaining, cursor |-> PyNone,
     results |-> <<>>, enriched |-> <<>>, i |-> 1, phase |-> "list"]

\* line 108: results.extend(batch)
ExtendWithBatchOnly(results, batch) == batch
ExtendResults(results, batch) == results \o batch

\* line 114: `if max_depth <= 0: return results` does not hold
DescendsAlways(remaining) == TRUE
Descends(remaining) == ~(remaining <= 0)

\* lines 119, 123, 125: b = dict(b); b["children"] = ...
WithChildren(b, children) == [children |-> children] @@ b

\* line 123: max_depth=max_depth - 1
RemainingKept(remaining) == remaining
Remaining(remaining) == remaining - 1

Top == stack[Len(stack)]

\* the frames once the caller of the running activation has taken v as the
\* children of the block it is at and appended the block (lines 123-126)
CallerAppendsNothing(frames, v) ==
    [SubSeq(frames, 1, Len(frames) - 1) EXCEPT ![Len(frames) - 1] =
        [@ EXCEPT !.i = @ + 1]]
CallerAppends(frames, v) ==
    LET caller == frames[Len(frames) - 1]
    IN  [SubSeq(frames, 1, Len(frames) - 1) EXCEPT ![Len(frames) - 1] =
            [@ EXCEPT !.enriched = Append(@, WithChildren(caller.results[caller.i], v)),
                      !.i = @ + 1]]

\* lines 124-125: except Exception: b["children"] = []
ExceptDropsBlock(frames) == CallerAppendsNothing(frames, <<>>)
Except(frames) == CallerAppends(frames, <<>>)

\* the running activation hands v to its caller: line 123 stores it in the
\* block the caller is at, line 126 appends the block; the outermost
\* activation returns to the tool, whose line 959 binds blocks
ReturnToCaller(v) ==
    IF Len(stack) = 1
    THEN /\ stack' = <<>>
         /\ blocks' = v
         /\ pc' = "fetched"
    ELSE /\ stack' = CallerAppends(stack, v)
         /\ UNCHANGED <<blocks, pc>>

\* a page-content tool calls the Retriever (line 959)
CallRetriever(pid, d) ==
    /\ program = "retriever" /\ pc = "idle"
    /\ page_id' = pid
    /\ max_depth' = d
    /\ stack' = <<Frame(pid, d)>>
    /\ pc' = "fetch"
    /\ UNCHANGED <<program, process_vars, chat_vars, result, fault, notion, blocks, depth,
                   format, value>>

\* lines 105-111: one request of the pagination loop and its answer
ListPage ==
    /\ program = "retriever" /\ pc = "fetch" /\ Top.phase = "list"
    /\ LET r == children_list(notion, Top.block_id, Top.cursor)
       IN  /\ r.ok
           /\ stack' = [stack EXCEPT ![Len(stack)] =
                 [@ EXCEPT !.results = ExtendResults(@, r.resp.results),
                           !.cursor = IF r.resp.has_more THEN r.resp.next_cursor
                                      ELSE @,
                           !.phase = IF r.resp.has_more THEN "list" ELSE "enrich"]]
    /\ notion' = [notion EXCEPT !.calls = Append(@, <<Top.block_id, Top.cursor>>)]
    /\ UNCHANGED <<program, process_vars, chat_vars, pc, result, fault, page_id, max_depth,
                   blocks, depth, format, value>>

\* line 106 raises: the activation is left; lines 124-125 of its caller give
\* the block an empty children list, the outermost activation has no caller
\* and the exception reaches the tool
ListRaises ==
    /\ program = "retriever" /\ pc = "fetch" /\ Top.phase = "list"
    /\ ~children_list(notion, Top.block_id, Top.cursor).ok
    /\ notion' = [notion EXCEPT !.calls = Append(@, <<Top.block_id, Top.cursor>>)]
    /\ IF Len(stack) = 1
       THEN /\ stack' = <<>>
            /\ pc' = "raised"
            /\ fault' = "APIResponseError"
       ELSE /\ stack' = Except(stack)
            /\ UNCHANGED <<pc, fault>>
    /\ UNCHANGED <<program, process_vars, chat_vars, result, page_id, max_depth, blocks, depth,
                   format, value>>

\* lines 114-115: no descent left, the listing is returned as it is
ReturnResults ==
    /\ program = "retriever" /\ pc = "fetch" /\ Top.phase = "enrich"
    /\ ~Descends(Top.max_depth)
    /\ ReturnToCaller(Top.results)
    /\ UNCHANGED <<program, process_vars, chat_vars, result, fault, notion, page_id, max_depth,
                   depth, format, value>>

\* lines 118-126: the next block of the listing; one with children is
\* fetched by a new activation, any other is appended as it is
EnrichBlock ==
    /\ program = "retriever" /\ pc = "fetch" /\ Top.phase = "enrich"
    /\ Descends(Top.max_depth)
    /\ Top.i <= Len(Top.results)
    /\ LET b == Top.results[Top.i]
       IN  IF b.has_children
           THEN stack' = Append(stack, Frame(b.id, Remaining(Top.max_depth)))
           ELSE stack' = [stack EXCEPT ![Len(stack)] =
                            [@ EXCEPT !.enriched = Append(@, b), !.i = @ + 1]]
    /\ UNCHANGED <<program, process_vars, chat_vars, pc, result, fault, notion, page_id,
                   max_depth, blocks, depth, format, value>>

\* line 127: every block of the listing has been handled
ReturnEnriched ==
    /\ program = "retriever" /\ pc = "fetch" /\ Top.phase = "enrich"
    /\ Descends(Top.max_depth)
    /\ Top.i > Len(Top.results)
    /\ ReturnToCaller(Top.enriched)
    /\ UNCHANGED <<program, process_vars, chat_vars, result, fault, notion, page_id, max_depth,
                   depth, format, value>>

ChatIdle ==
    /\ mcp_client = TRUE
    /\ user_id = PyNone
    /\ final_cookies = <<>>
    /\ messages = <<>>
    /\ iteration = 0
    /\ requests = 0
    /\ sent = <<>>
    /\ msg = [tool_calls |-> <<>>, content |-> PyNone]
    /\ tool_results = <<>>
    /\ idx = 1
    /\ inflight = {}
    /\ rich_used = FALSE
    /\ message = <<>>

InitRetriever ==
    /\ program = "retriever"
    /\ ProcessIdle
    /\ tool_list = <<>>
    /\ NOTION_TOKEN = PyStr(Credentials.env)
    /\ pc = "idle"
    /\ ChatIdle
    /\ result = PyNone
    /\ fault = ""
    /\ notion \in Sources
    /\ page_id = ""
    /\ max_depth = 0
    /\ stack = <<>>
    /\ blocks = <<>>
    /\ depth = 0
    /\ format = <<>>
    /\ value = PyNone

NextRetriever ==
    \/ \E d \in 0..MaxDepth : CallRetriever("r", d)
    \/ ListPage
    \/ ListRaises
    \/ ReturnResults
    \/ EnrichBlock
    \/ ReturnEnriched

\* the calls are synchronous: a started fetch keeps running
SpecRetriever ==
    InitRetriever /\ [][NextRetriever]_vars /\ WF_vars(NextRetriever)

----------------------------------------------------------------------------
(* The Renderer: _rich_text_to_plain and _blocks_to_markdown (server.py),  *)
(* and the joining and reduction the page-content tools do with its lines. *)
(* A block is a record: type, data (the mapping stored under the type's    *)
(* name) and children; a field a block does not have is absent.            *)

\* the block types, by name; "table" is one _blocks_to_markdown has no branch for
BT ==
    [ heading_1 |-> <<104, 101, 97, 100, 105, 110, 103, 95, 49>>,
      heading_2 |-> <<104, 101, 97, 100, 105, 110, 103, 95, 50>>,
      heading_3 |-> <<104, 101, 97, 100, 105, 110, 103, 95, 51>>,
      paragraph |-> <<112, 97, 114, 97, 103, 114, 97, 112, 104>>,
      bulleted_list_item |-> <<98, 117, 108, 108, 101, 116, 101, 100, 95, 108, 105, 115, 116, 95, 105, 116, 101, 109>>,
      numbered_list_item |-> <<110, 117, 109, 98, 101, 114, 101, 100, 95, 108, 105, 115, 116, 95, 105, 116, 101, 109>>,
      to_do |-> <<116, 111, 95, 100, 111>>,
      quote |-> <<113, 117, 111, 116, 101>>,
      callout |-> <<99, 97, 108, 108, 111, 117, 116>>,
      code |-> <<99, 111, 100, 101>>,
      toggle |-> <<116, 111, 103, 103, 108, 101>>,
      divider |-> <<100, 105, 118, 105, 100, 101, 114>>,
      image |-> <<105, 109, 97, 103, 101>>,
      table |-> <<116, 97, 98, 108, 101>> ]

\* the markers the lines are written with: "# ", "## ", "### ", "- ", "1. ",
\* "- [x] ", "- [ ] ", "> ", "▸ ", "---", "```", "![image]  ", "💡"
M ==
    [ heading_1 |-> <<35, 32>>,
      heading_2 |-> <<35, 35, 32>>,
      heading_3 |-> <<35, 35, 35, 32>>,
      bulleted |-> <<45, 32>>,
      numbered |-> <<49, 46, 32>>,
      checked |-> <<45, 32, 91, 120, 93, 32>>,
      unchecked |-> <<45, 32, 91, 32, 93, 32>>,
      quote |-> <<62, 32>>,
      toggle |-> <<9656, 32>>,
      divider |-> <<45, 45, 45>>,
      fence |-> <<96, 96, 96>>,
      image |-> <<33, 91, 105, 109, 97, 103, 101, 93, 32, 32>>,
      bulb |-> <<128161>> ]

\* the words of the page-content tools
F ==
    [ plain |-> <<112, 108, 97, 105, 110>>,  \* "plain"
      newline |-> <<10>>,  \* "\n"
      markdown |-> <<109, 97, 114, 107, 100, 111, 119, 110>> ]  \* "markdown"
HELLO == <<104, 101, 108, 108, 111>>  \* "hello"

\* d.get(k, default) on a record
Get(d, k, default) == IF k \in DOMAIN d THEN d[k] ELSE default

\* the code points str.isspace() holds of
IsSpace(c) ==
    \/ c \in 9..13 \/ c \in 28..32 \/ c \in {133, 160, 5760}
    \/ c \in 8192..8202 \/ c \in {8232, 8233, 8239, 8287, 12288}

\* str.rstrip(), str.lstrip(), str.strip()
RECURSIVE rstrip(_)
rstrip(str) ==
    IF str # <<>> /\ IsSpace(str[Len(str)])
    THEN rstrip(SubSeq(str, 1, Len(str) - 1)) ELSE str
RECURSIVE lstrip(_)
lstrip(str) == IF str # <<>> /\ IsSpace(Head(str)) THEN lstrip(Tail(str)) ELSE str
strip(str) == lstrip(rstrip(str))

\* str.lower() on the letters A-Z
lower(str) == [i \in 1..Len(str) |-> IF str[i] \in 65..90 THEN str[i] + 32 ELSE str[i]]

\* sep.join(strs)
RECURSIVE join(_, _)
join(sep, strs) ==
    IF strs = <<>> THEN <<>>
    ELSE IF Len(strs) = 1 THEN strs[1]
    ELSE strs[1] \o sep \o join(sep, Tail(strs))

\* str.replace(old, ""): the occurrences of old, found left to right without
\* overlap, are taken out
RECURSIVE replace(_, _)
replace(str, old) ==
    IF Len(str) < Len(old) THEN str
    ELSE IF SubSeq(str, 1, Len(old)) = old
         THEN replace(SubSeq(str, Len(old) + 1, Len(str)), old)
         ELSE <<Head(str)>> \o replace(Tail(str), old)

\* lines 37-45: item.get("plain_text") or item.get("text", {}).get("content", "")
\* of every item, joined and stripped
_rich_text_to_plain(rt_items) ==
    strip(join(<<>>,
               [i \in 1..Len(rt_items) |->
                  IF Get(rt_items[i], "plain_text", <<>>) # <<>>
                  THEN rt_items[i].plain_text
                  ELSE Get(Get(rt_items[i], "text", [content |-> <<>>]),
                           "content", <<>>)]))

\* line 135: indent = "  " * depth
Indent(d) == [i \in 1..(2 * d) |-> 32]

\* line 156: mark = "x" if checked else " "
MarkAlwaysBlank(checked) == <<32>>
Mark(checked) == IF checked THEN <<120>> ELSE <<32>>

\* lines 138-179: the lines of one block, children apart
BlockLines(blk, indent) ==
    LET btype == blk.type
        data == Get(blk, "data", [rich_text |-> <<>>])
        text == _rich_text_to_plain(Get(data, "rich_text", <<>>))
    IN  CASE btype = BT.heading_1 -> << indent \o M.heading_1 \o text >>
          [] btype = BT.heading_2 -> << indent \o M.heading_2 \o text >>
          [] btype = BT.heading_3 -> << indent \o M.heading_3 \o text >>
          [] btype = BT.paragraph -> << indent \o text >>
          [] btype = BT.bulleted_list_item -> << indent \o M.bulleted \o text >>
          [] btype = BT.numbered_list_item -> << indent \o M.numbered \o text >>
          [] btype = BT.to_do ->
                << indent \o <<45, 32, 91>> \o Mark(Get(data, "checked", FALSE))
                     \o <<93, 32>> \o text >>
          [] btype = BT.quote -> << indent \o M.quote \o text >>
          [] btype = BT.callout ->
                LET icon == Get(data, "icon", [type |-> "none"])
                    emoji == Get(icon, "emoji", <<>>)
                    prefix == IF emoji # <<>> THEN emoji ELSE M.bulb
                IN  << indent \o prefix \o <<32>> \o text >>
          [] btype = BT.code ->
                << rstrip(indent \o M.fence \o Get(data, "language", <<>>)),
                   text,
                   indent \o M.fence >>
          [] btype = BT.toggle -> << indent \o M.toggle \o text >>
          [] btype = BT.divider -> << indent \o M.divider >>
          [] btype = BT.image ->
                << rstrip(indent \o M.image
                            \o _rich_text_to_plain(Get(data, "caption", <<>>))) >>
          [] OTHER -> << rstrip(indent \o <<91>> \o btype \o <<93, 32>> \o text) >>

\* line 184: lines.extend(...) of the children, right after the block's own
ExtendAfterSiblings(own, below, rest) == own \o rest \o below
ExtendLines(own, below, rest) == own \o below \o rest

\* lines 129-186
RECURSIVE _blocks_to_markdown(_, _)
_blocks_to_markdown(blks, d) ==
    IF blks = <<>> THEN <<>>
    ELSE LET blk == Head(blks)
             children == Get(blk, "children", <<>>)
         IN  ExtendLines(BlockLines(blk, Indent(d)),
                         IF children # <<>>
                         THEN _blocks_to_markdown(children, d + 1) ELSE <<>>,
                         _blocks_to_markdown(Tail(blks), d))

\* lines 967-973: the five removals, in the order of the source
ReduceToPlain(md) ==
    replace(replace(replace(replace(replace(md, M.heading_1), M.heading_2),
                            M.heading_3), M.checked), M.unchecked)

\* rich_text of one item
RichText(str) == << [plain_text |-> str] >>
\* a block with its type-specific data and nothing below it
Block(btype, data) == [type |-> btype, data |-> data]
\* the block as the Retriever returns it when it has children
Nest(blk, children) == [children |-> children, has_children |-> TRUE] @@ blk

BlockTypes == { BT[f] : f \in DOMAIN BT }

\* "hello", "", "a# b"
Texts == { HELLO, <<>>, <<97, 35, 32, 98>> }

Paragraph(str) == Block(BT.paragraph, [rich_text |-> RichText(str)])

\* blocks of every type, and those whose data holds more than the text
Leaves ==
    { Block(t, [rich_text |-> RichText(x)]) : t \in BlockTypes, x \in Texts }
      \cup { Block(BT.to_do, [rich_text |-> RichText(HELLO), checked |-> c]) :
               c \in BOOLEAN }
      \cup { Block(BT.callout, [rich_text |-> RichText(HELLO),
                                icon |-> [type |-> "emoji", emoji |-> <<9888>>]]),
             Block(BT.callout, [rich_text |-> RichText(HELLO),
                                icon |-> [type |-> "external"]]),
             Block(BT.code, [rich_text |-> RichText(HELLO), language |-> <<112, 121>>]),
             Block(BT.image, [caption |-> RichText(HELLO)]),
             Block(BT.image, [caption |-> <<>>]),
             Block(BT.divider, [type |-> "divider"]),
             Block(BT.paragraph,
                   [rich_text |-> << [plain_text |-> <<32, 104>>],
                                     [text |-> [content |-> <<105, 32>>]] >>]) }

\* the documents: one block; one block under a toggle or a list item, and
\* under such a block in turn; siblings with blocks below them
Documents ==
    { <<b>> : b \in Leaves }
      \cup { << Nest(p, <<b>>) >> :
               p \in { Block(BT.toggle, [rich_text |-> RichText(HELLO)]),
                       Block(BT.bulleted_list_item, [rich_text |-> RichText(<<>>)]) },
               b \in Leaves }
      \cup { << Nest(Paragraph(<<97>>),
                     << Nest(Paragraph(<<98>>), <<b>>), Paragraph(<<100>>) >>),
                Paragraph(<<101>>) >> :
               b \in { Paragraph(<<99>>),
                       Block(BT.code, [rich_text |-> RichText(HELLO)]),
                       Block(BT.heading_2, [rich_text |-> RichText(HELLO)]) } }

\* values of the format parameter: "markdown", "plain", "Plain"
Formats == { F.markdown, F.plain, <<80>> \o Tail(F.plain) }

\* lines 129-186, called with the blocks and a depth
RenderBlocks ==
    /\ program = "renderer" /\ pc = "idle"
    /\ result' = LET lines == _blocks_to_markdown(blocks, depth)
               IN  PyList([i \in 1..Len(lines) |-> PyStr(lines[i])])
    /\ pc' = "rendered"
    /\ UNCHANGED <<program, process_vars, chat_vars, fault, server_vars>>

\* line 963: md = "\n".join(md_lines).strip(); the tools render at depth 0
JoinLines ==
    /\ program = "renderer" /\ pc = "rendered" /\ depth = 0
    /\ result' = PyStr(strip(join(F.newline,
                                  [i \in 1..Len(result.l) |-> result.l[i].s])))
    /\ pc' = "joined"
    /\ UNCHANGED <<program, process_vars, chat_vars, fault, server_vars>>

\* lines 965-975: format.lower() == "plain"
ReducePlain ==
    /\ program = "renderer" /\ pc = "joined"
    /\ lower(format) = F.plain
    /\ result' = PyStr(ReduceToPlain(result.s))
    /\ pc' = "done"
    /\ UNCHANGED <<program, process_vars, chat_vars, fault, server_vars>>

\* lines 976-978: any other format keeps the structured text
KeepMarkdown ==
    /\ program = "renderer" /\ pc = "joined"
    /\ lower(format) # F.plain
    /\ pc' = "done"
    /\ UNCHANGED <<program, process_vars, chat_vars, result, fault, server_vars>>

InitRenderer ==
    /\ program = "renderer"
    /\ ProcessIdle
    /\ tool_list = <<>>
    /\ NOTION_TOKEN = PyStr(Credentials.env)
    /\ pc = "idle"
    /\ ChatIdle
    /\ result = PyNone
    /\ fault = ""
    /\ notion = <<>>
    /\ page_id = ""
    /\ max_depth = 0
    /\ stack = <<>>
    /\ blocks \in Documents
    /\ depth \in 0..MaxRenderDepth
    /\ format \in Formats
    /\ value = PyNone

NextRenderer ==
    \/ RenderBlocks
    \/ JoinLines
    \/ ReducePlain
    \/ KeepMarkdown

SpecRenderer == InitRenderer /\ [][NextRenderer]_vars

----------------------------------------------------------------------------
(* _sanitize applied to value trees (web_server.py, client.py).            *)

\* the value trees: leaves (strings without and with surrogate code points,
\* an int, None); sequences and mappings of leaves, the keys being strings
\* or an int; mappings of two keys; sequences and mappings one level deeper
ValueTrees ==
    LET Atoms == { PyStr(str) : str \in { <<>>, <<97>>, <<55296>>, <<97, 56320, 98>>,
                                          <<55357, 56832, 33>> } }
                   \cup { PyInt(1), PyNone }
        Keys == { PyStr(str) : str \in {<<97>>, <<97, 56320>>, <<56320, 98>>} }
                  \cup { PyInt(1) }
    IN  Atoms
          \cup { PyList(<<a>>) : a \in Atoms }
          \cup { PyList(<<PyStr(x), PyStr(y)>>) : x, y \in {<<97>>, <<97, 56320, 98>>} }
          \cup { PyDict(<< <<k, a>> >>) : k \in Keys, a \in Atoms }
          \cup { PyDict(<< <<k[1], PyStr(<<120>>)>>, <<k[2], PyInt(1)>> >>) :
                   k \in { kk \in Keys \X Keys : kk[1] # kk[2] } }
          \cup { PyList(<< PyDict(<< <<k, PyList(<<a>>)>> >>) >>) :
                   k \in Keys, a \in Atoms }

\* the object a caller passed to _sanitize, after the call: lines 74-85
\* build a new string, list or dict and assign nothing into obj
ArgumentAfter(obj) == obj

\* lines 73-85 of web_server.py, 27-39 of client.py
SanitizeValue ==
    /\ program = "sanitize" /\ pc = "idle"
    /\ result' = _sanitize(value)
    /\ value' = ArgumentAfter(value)
    /\ pc' = "sanitized"
    /\ UNCHANGED <<program, process_vars, chat_vars, fault, notion, page_id, max_depth, stack,
                   blocks, depth, format>>

\* the value that came back is sanitized once more
SanitizeAgain ==
    /\ program = "sanitize" /\ pc = "sanitized"
    /\ result' = _sanitize(result)
    /\ value' = value
    /\ pc' = "resanitized"
    /\ UNCHANGED <<program, process_vars, chat_vars, fault, notion, page_id, max_depth, stack,
                   blocks, depth, format>>

InitSanitize ==
    /\ program = "sanitize"
    /\ ProcessIdle
    /\ tool_list = <<>>
    /\ NOTION_TOKEN = PyStr(Credentials.env)
    /\ pc = "idle"
    /\ ChatIdle
    /\ result = PyNone
    /\ fault = ""
    /\ notion = <<>>
    /\ page_id = ""
    /\ max_depth = 0
    /\ stack = <<>>
    /\ blocks = <<>>
    /\ depth = 0
    /\ format = <<>>
    /\ value \in ValueTrees

NextSanitize ==
    \/ SanitizeValue
    \/ SanitizeAgain

SpecSanitize == InitSanitize /\ [][NextSanitize]_vars

----------------------------------------------------------------------------
(* The tool schemas: _mcp_schema_to_openai_tool, startup_event and the
   health endpoint (web_server.py; client.py holds the same adapter). *)

\* the field names and words of the descriptors, schemas and health report
W ==
    [ name |-> <<110, 97, 109, 101>>,
      tool |-> <<116, 111, 111, 108>>,
      description |-> <<100, 101, 115, 99, 114, 105, 112, 116, 105, 111, 110>>,
      inputSchema |-> <<105, 110, 112, 117, 116, 83, 99, 104, 101, 109, 97>>,
      input_schema |-> <<105, 110, 112, 117, 116, 95, 115, 99, 104, 101, 109, 97>>,
      type |-> <<116, 121, 112, 101>>,
      function |-> <<102, 117, 110, 99, 116, 105, 111, 110>>,
      parameters |-> <<112, 97, 114, 97, 109, 101, 116, 101, 114, 115>>,
      object |-> <<111, 98, 106, 101, 99, 116>>,
      properties |-> <<112, 114, 111, 112, 101, 114, 116, 105, 101, 115>>,
      string |-> <<115, 116, 114, 105, 110, 103>>,
      status |-> <<115, 116, 97, 116, 117, 115>>,
      healthy |-> <<104, 101, 97, 108, 116, 104, 121>>,
      mcp_connected |-> <<109, 99, 112, 95, 99, 111, 110, 110, 101, 99, 116, 101, 100>>,
      tools_count |-> <<116, 111, 111, 108, 115, 95, 99, 111, 117, 110, 116>> ]

\* most descriptors of a registry
MaxTools == 2

\* a Tool of the MCP library, a pydantic model
PyTool(name, description, inputSchema) ==
    [t |-> "tool", name |-> name, description |-> description,
     inputSchema |-> inputSchema]

\* a pydantic model gives its fields as a dict, an unset one being None;
\* anything else is returned as it is
_to_dict(x) ==
    IF x.t = "tool"
    THEN PyDict(<< <<PyStr(W.name), x.name>>,
                   <<PyStr(W.description), x.description>>,
                   <<PyStr(W.inputSchema), x.inputSchema>> >>)
    ELSE x

\* {"type": "object", "properties": {}}
EmptyObjectSchema ==
    PyDict(<< <<PyStr(W.type), PyStr(W.object)>>,
              <<PyStr(W.properties), PyDict(<<>>)>> >>)

\* str.translate is looked up on the name and on the description: a value
\* that is no string has no such attribute
_mcp_schema_to_openai_tool(tool) ==
    LET \* dict.get(k, default)
        DictGet(d, k, default) == IF HasKey(d, k) THEN GetItem(d, k) ELSE default
        \* x or y
        Or(x, y) == IF Truthy(x) THEN x ELSE y
        t == _to_dict(tool)
        name == Or(Or(DictGet(t, W.name, PyNone), DictGet(t, W.tool, PyNone)),
                   PyStr(W.tool))
        description == DictGet(t, W.description, PyStr(<<>>))
        schema == Or(Or(DictGet(t, W.inputSchema, PyNone),
                        DictGet(t, W.input_schema, PyNone)),
                     EmptyObjectSchema)
    IN  IF name.t # "str" \/ description.t # "str"
        THEN [t |-> "raised", e |-> "AttributeError"]
        ELSE PyDict(<< <<PyStr(W.type), PyStr(W.function)>>,
                       <<PyStr(W.function),
                         PyDict(<< <<PyStr(W.name), PyStr(_strip_surrogates(name.s))>>,
                                   <<PyStr(W.description),
                                     PyStr(_strip_surrogates(description.s))>>,
                                   <<PyStr(W.parameters), _sanitize(schema)>> >>)>> >>)

\* the descriptors: plain dicts with any of the five fields the adapter
\* reads, and Tool models. The parameter schemas are an object schema with
\* one property, one whose property name holds a surrogate code point, and
\* a schema of a string
Descriptors ==
    LET \* an item of a dict display that may be left out
        Optional(k, values) == {<<>>} \cup { << <<PyStr(k), v>> >> : v \in values }
        OneProperty(k) ==
            PyDict(<< <<PyStr(W.type), PyStr(W.object)>>,
                      <<PyStr(W.properties),
                        PyDict(<< <<PyStr(k), PyDict(<< <<PyStr(W.type),
                                                          PyStr(W.string)>> >>)>> >>)>> >>)
        Schemas == { OneProperty(<<113>>), OneProperty(<<113, 56320>>),
                     PyDict(<< <<PyStr(W.type), PyStr(W.string)>> >>) }
    IN
    { PyDict(n \o tl \o d \o s1 \o s2) :
        n \in Optional(W.name, { PyNone, PyStr(<<>>), PyStr(<<115>>),
                                 PyStr(<<55296>>), PyStr(<<115, 56320>>) }),
        tl \in Optional(W.tool, { PyStr(<<116>>) }),
        d \in Optional(W.description, { PyNone, PyStr(<<100>>),
                                        PyStr(<<100, 56320>>) }),
        s1 \in Optional(W.inputSchema, Schemas \cup { PyDict(<<>>) }),
        s2 \in Optional(W.input_schema, { EmptyObjectSchema }) }
      \cup { PyTool(PyStr(n), d, sch) :
               n \in { <<115>>, <<55296>> },
               d \in { PyNone, PyStr(<<100>>) },
               sch \in Schemas }

\* the registries: none or one of any descriptor, and more of a few
Registries ==
    LET RegistryDescriptors ==
            { PyTool(PyStr(<<115>>), PyStr(<<100>>), EmptyObjectSchema),
              PyTool(PyStr(<<55296>>), PyStr(<<100>>), EmptyObjectSchema),
              PyTool(PyStr(<<115>>), PyNone, EmptyObjectSchema),
              PyDict(<< <<PyStr(W.name), PyStr(<<116>>)>>,
                        <<PyStr(W.input_schema), PyDict(<< <<PyStr(W.type),
                                                            PyStr(W.string)>> >>)>> >>),
              PyDict(<<>>) }
    IN  { <<>> } \cup { <<d>> : d \in Descriptors }
          \cup UNION { [1..k -> RegistryDescriptors] : k \in 2..MaxTools }

\* lines 266-283 of web_server.py: the client is created, the tools are
\* listed and adapted one by one, and the list is sanitized; an exception of
\* any step is printed and raised again, the globals assigned before it
\* keeping their values
StartupEvent ==
    /\ program = "startup" /\ pc = "idle"
    /\ mcp_client' = TRUE
    /\ LET adapted == [i \in 1..Len(tool_list) |->
                          _mcp_schema_to_openai_tool(tool_list[i])]
       IN  IF \E i \in 1..Len(adapted) : adapted[i].t = "raised"
           THEN /\ pc' = "raised"
                /\ fault' = adapted[CHOOSE i \in 1..Len(adapted) :
                                       /\ adapted[i].t = "raised"
                                       /\ \A j \in 1..(i - 1) :
                                             adapted[j].t # "raised"].e
                /\ UNCHANGED openai_tools
           ELSE /\ pc' = "started"
                /\ openai_tools' = _sanitize(PyList(adapted)).l
                /\ UNCHANGED fault
    /\ UNCHANGED <<program, tool_list, notion_clients, invocations, constructed,
                   chats, lists, NOTION_TOKEN, access_token, page_ids, fetched,
                   page_results, server_vars, result, user_id, final_cookies,
                   messages, iteration, requests, sent, msg, tool_results, idx,
                   inflight, rich_used, message>>

\* lines 326-333 of web_server.py; the application serves requests once its
\* startup handler has returned
HealthCheck ==
    /\ program = "startup" /\ pc = "started"
    /\ result' = PyDict(<< <<PyStr(W.status), PyStr(W.healthy)>>,
                           <<PyStr(W.mcp_connected), [t |-> "bool", b |-> mcp_client]>>,
                           <<PyStr(W.tools_count), PyInt(Len(openai_tools))>> >>)
    /\ pc' = "served"
    /\ UNCHANGED <<program, process_vars, chat_vars, fault, server_vars>>

InitStartup ==
    /\ program = "startup"
    /\ NOTION_TOKEN = PyStr(Credentials.env)
    /\ pc = "idle"
    /\ mcp_client = FALSE
    /\ tool_list \in Registries
    /\ ProcessIdle
    /\ user_id = PyNone
    /\ final_cookies = <<>>
    /\ messages = <<>>
    /\ iteration = 0
    /\ requests = 0
    /\ sent = <<>>
    /\ msg = [tool_calls |-> <<>>, content |-> PyNone]
    /\ tool_results = <<>>
    /\ idx = 1
    /\ inflight = {}
    /\ rich_used = FALSE
    /\ message = <<>>
    /\ result = PyNone
    /\ fault = ""
    /\ ServerIdle

NextStartup ==
    \/ StartupEvent
    \/ HealthCheck

SpecStartup == InitStartup /\ [][NextStartup]_vars

----------------------------------------------------------------------------
(* The client cache of server.py: _get_notion_client and the tool
   invocations that call it. *)

\* most tool invocations followed
MaxInvocations == 3

\* the tools that call _get_notion_client (lines 808, 900, 952, 1019, 1073)
CacheTools ==
    { T.get_complete_notion_pages_with_token, T.notion_search_with_token,
      T.notion_page_content_with_token, T.notion_page_content, T.notion_search }

\* where the host runs a tool function: a coroutine runs on the event loop;
\* a plain function is called on the event loop or handed to a worker
\* thread, as the installed FastMCP does it
Threads(tool) == IF tool \in SyncTools THEN {"loop", "worker"} ELSE {"loop"}

\* the credential a tool looks its client up with: its access_token
\* parameter, or NOTION_TOKEN for the tools without one (lines 1015, 1069)
Tokens(tool) ==
    IF tool \in SyncTools THEN { Credentials.env }
    ELSE { Credentials.env, Credentials.given }

\* the tool functions hold no await between their first and last line, so
\* one on the event loop ends before the next one on the event loop begins
LoopFree == \A j \in 1..Len(invocations) :
                invocations[j].thread = "loop" => invocations[j].pc = "done"

\* a tool is invoked and reaches its call of _get_notion_client
Invoke(tool, token, thread) ==
    /\ program = "cache"
    /\ Len(invocations) < MaxInvocations
    /\ thread = "loop" => LoopFree
    /\ invocations' = Append(invocations,
                             [tool |-> tool, access_token |-> token,
                              thread |-> thread, pc |-> "line24", handle |-> 0])
    /\ UNCHANGED <<program, pc, tool_list, openai_tools, notion_clients,
                   constructed, chats, lists, NOTION_TOKEN, access_token,
                   page_ids, fetched, page_results, chat_vars, result, fault, server_vars>>

\* line 24: if access_token not in notion_clients
TestCache(i) ==
    /\ program = "cache"
    /\ i \in 1..Len(invocations)
    /\ invocations[i].pc = "line24"
    /\ invocations' =
          [invocations EXCEPT ![i].pc =
              IF invocations[i].access_token \in DOMAIN notion_clients
              THEN "line26" ELSE "line25"]
    /\ UNCHANGED <<program, pc, tool_list, openai_tools, notion_clients,
                   constructed, chats, lists, NOTION_TOKEN, access_token,
                   page_ids, fetched, page_results, chat_vars, result, fault, server_vars>>

\* line 25: notion_clients[access_token] = Client(auth=access_token)
StoreClient(i) ==
    /\ program = "cache"
    /\ i \in 1..Len(invocations)
    /\ invocations[i].pc = "line25"
    /\ constructed' = Append(constructed, invocations[i].access_token)
    /\ notion_clients' =
          [k \in DOMAIN notion_clients \cup {invocations[i].access_token} |->
              IF k = invocations[i].access_token THEN Len(constructed) + 1
              ELSE notion_clients[k]]
    /\ invocations' = [invocations EXCEPT ![i].pc = "line26"]
    /\ UNCHANGED <<program, pc, tool_list, openai_tools, chats, lists, NOTION_TOKEN,
                   access_token, page_ids, fetched, page_results, chat_vars, result,
                   fault, server_vars>>

\* line 26: return notion_clients[access_token]
ReturnClient(i) ==
    /\ program = "cache"
    /\ i \in 1..Len(invocations)
    /\ invocations[i].pc = "line26"
    /\ invocations' =
          [invocations EXCEPT ![i].pc = "done",
                              ![i].handle = notion_clients[invocations[i].access_token]]
    /\ UNCHANGED <<program, pc, tool_list, openai_tools, notion_clients,
                   constructed, chats, lists, NOTION_TOKEN, access_token,
                   page_ids, fetched, page_results, chat_vars, result, fault, server_vars>>

InitCache ==
    /\ program = "cache"
    /\ pc = "idle"
    /\ ProcessIdle
    /\ tool_list = <<>>
    /\ NOTION_TOKEN = PyStr(Credentials.env)
    /\ ChatIdle
    /\ result = PyNone
    /\ fault = ""
    /\ ServerIdle

NextCache ==
    \/ \E tool \in CacheTools : \E token \in Tokens(tool) :
          \E thread \in Threads(tool) : Invoke(tool, token, thread)
    \/ \E i \in 1..MaxInvocations : TestCache(i)
    \/ \E i \in 1..MaxInvocations : StoreClient(i)
    \/ \E i \in 1..MaxInvocations : ReturnClient(i)

SpecCache == InitCache /\ [][NextCache]_vars

----------------------------------------------------------------------------
(* Chat requests handled at once by the web server: chat_endpoint and
   process_chat_with_ai, one coroutine per request on one event loop. *)

\* most chat requests handled at once
MaxRequests == 2
\* most completion responses with tool calls, per request
MaxCycles == 2

\* what the concurrent requests leave alone
OtherVars ==
    <<program, pc, tool_list, openai_tools, notion_clients, invocations,
      constructed, NOTION_TOKEN, access_token, page_ids, fetched, page_results,
      chat_vars, result, fault, server_vars>>

\* the list the name `messages` stands for in request r: the name is a local
\* of the call, bound at line 153
ListOfModule(r) == 0

ListOf(r) == r

\* a message, with the request and the cycle that appended it
Message(role, r, n) == [role |-> role, by |-> r, cycle |-> n]

\* the event loop runs one coroutine at a time, and a request gives it up at
\* the await of line 221 alone: the completion request of line 192 blocks
EventLoopFree == \A q \in 1..MaxRequests : chats[q].pc # "cycle"

\* lines 305-316 and 147-183: a request arrives and binds its messages
ChatArrives(r) ==
    /\ program = "chats"
    /\ chats[r].pc = "idle"
    /\ EventLoopFree
    /\ lists' = [lists EXCEPT ![ListOf(r)] =
                    << Message("system", r, 0), Message("user", r, 0) >>]
    /\ chats' = [chats EXCEPT ![r].pc = "cycle"]
    /\ UNCHANGED OtherVars

\* lines 189-198 and 257-258: the messages are sent; the response holds k
\* tool calls, the first of which is dispatched, or none and the request
\* returns
ChatCompletes(r, k) ==
    /\ program = "chats"
    /\ chats[r].pc = "cycle"
    /\ k > 0 => chats[r].iteration < MaxCycles
    /\ chats' = [chats EXCEPT
                    ![r].iteration = @ + 1,
                    ![r].sent = Append(@, lists[ListOf(r)]),
                    ![r].calls = k,
                    ![r].pending = k,
                    ![r].pc = IF k = 0 THEN "done" ELSE "await"]
    /\ UNCHANGED <<lists, OtherVars>>

\* lines 221-248: the awaited tool call returns; the next one is dispatched,
\* or after the last the assistant message and the tool messages of the
\* turn are appended
ChatToolReturns(r) ==
    /\ program = "chats"
    /\ chats[r].pc = "await"
    /\ EventLoopFree
    /\ IF chats[r].pending > 1
       THEN /\ chats' = [chats EXCEPT ![r].pending = @ - 1]
            /\ UNCHANGED lists
       ELSE /\ chats' = [chats EXCEPT ![r].pending = 0, ![r].pc = "cycle"]
            /\ lists' = [lists EXCEPT ![ListOf(r)] =
                            @ \o << Message("assistant", r, chats[r].iteration) >>
                              \o [i \in 1..chats[r].calls |->
                                     Message("tool", r, chats[r].iteration)]]
    /\ UNCHANGED OtherVars

\* line 221 raises, and lines 321-323 answer the request with the failure
ChatToolRaises(r) ==
    /\ program = "chats"
    /\ chats[r].pc = "await"
    /\ EventLoopFree
    /\ chats' = [chats EXCEPT ![r].pc = "raised"]
    /\ UNCHANGED <<lists, OtherVars>>

InitChats ==
    /\ program = "chats"
    /\ NOTION_TOKEN = PyStr(Credentials.env)
    /\ pc = "idle"
    /\ tool_list = <<>>
    /\ openai_tools = <<>>
    /\ notion_clients = <<>>
    /\ invocations = <<>>
    /\ constructed = <<>>
    /\ chats = [r \in 1..MaxRequests |->
                  [pc |-> "idle", iteration |-> 0, calls |-> 0, pending |-> 0,
                   sent |-> <<>>]]
    /\ lists = [n \in 0..MaxRequests |-> <<>>]
    /\ access_token = <<>>
    /\ page_ids = <<>>
    /\ fetched = 0
    /\ page_results = <<>>
    /\ ChatIdle
    /\ result = PyNone
    /\ fault = ""
    /\ ServerIdle

NextChats ==
    \/ \E r \in 1..MaxRequests : ChatArrives(r)
    \/ \E r \in 1..MaxRequests : \E k \in 0..MaxCalls : ChatCompletes(r, k)
    \/ \E r \in 1..MaxRequests : ChatToolReturns(r)
    \/ \E r \in 1..MaxRequests : ChatToolRaises(r)

SpecChats == InitChats /\ [][NextChats]_vars

----------------------------------------------------------------------------
(* get_complete_notion_pages_with_token (server.py). *)

\* most page ids of one call
MaxPageIds == 3

\* what the content source holds for a page id: a page with its blocks, a
\* page whose block listing raises, or nothing, pages.retrieve raising
PageSources ==
    [ {"p", "q"} ->
        { [page |-> TRUE, title |-> <<84>>,
           blocks |-> << Block(BT.heading_1, [rich_text |-> RichText(HELLO)]) >>],
          [page |-> TRUE, title |-> <<84>>],
          [page |-> FALSE] } ]

\* lines 823-840: the blocks rendered, joined and reduced as format asks
PageContent(blks, fmt) ==
    LET md_content == strip(join(F.newline, _blocks_to_markdown(blks, 0)))
    IN  IF lower(fmt) = F.plain
        THEN [content |-> ReduceToPlain(md_content), format |-> F.plain]
        ELSE [content |-> md_content, format |-> F.markdown]

\* an except branch that appends nothing
PageErrorDropped(res, pid, fmt, e) == res

\* lines 851-860: the except branch of one page
PageError(res, pid, fmt, e) ==
    Append(res, [page_id |-> pid, title |-> <<>>, url |-> <<>>,
                 content |-> <<>>, format |-> fmt, success |-> FALSE,
                 error |-> "Failed to retrieve page: " \o e])

\* lines 801-809: the guards on the parameters, the client, the empty list
CallPages(token, ids, fmt) ==
    /\ program = "pages" /\ pc = "idle"
    /\ access_token' = token
    /\ page_ids' = ids
    /\ format' = fmt
    /\ IF token = <<>>
       THEN /\ result' = << [error |-> "Access token is required",
                              success |-> FALSE] >>
            /\ pc' = "done"
            /\ UNCHANGED <<notion_clients, constructed>>
       ELSE IF ids = <<>>
       THEN /\ result' = << [error |-> "Page IDs list is empty",
                              success |-> FALSE] >>
            /\ pc' = "done"
            /\ UNCHANGED <<notion_clients, constructed>>
       ELSE /\ constructed' = Append(constructed, token)
            /\ notion_clients' = [k \in {token} |-> Len(constructed) + 1]
            /\ pc' = "loop"
            /\ UNCHANGED result
    /\ UNCHANGED <<program, tool_list, openai_tools, invocations, chats, lists,
                   NOTION_TOKEN, fetched, page_results, chat_vars, fault, notion,
                   page_id, max_depth, stack, blocks, depth, value>>

\* lines 811-860: one page of the for loop
FetchPage ==
    /\ program = "pages" /\ pc = "loop"
    /\ fetched < Len(page_ids)
    /\ fetched' = fetched + 1
    /\ page_id' = page_ids[fetched + 1]
    /\ LET src == notion[page_ids[fetched + 1]]
       IN  page_results' =
             IF ~src.page
             THEN PageError(page_results, page_ids[fetched + 1], format, "pages")
             ELSE IF "blocks" \notin DOMAIN src
             THEN PageError(page_results, page_ids[fetched + 1], format, "blocks")
             ELSE Append(page_results,
                         [page_id |-> page_ids[fetched + 1], title |-> src.title,
                          url |-> <<>>, success |-> TRUE]
                           @@ PageContent(src.blocks, format))
    /\ UNCHANGED <<program, pc, tool_list, openai_tools, notion_clients,
                   invocations, constructed, chats, lists, NOTION_TOKEN,
                   access_token, page_ids, chat_vars, result, fault, notion,
                   max_depth, stack, blocks, depth, format, value>>

\* line 862: return results
ReturnPages ==
    /\ program = "pages" /\ pc = "loop"
    /\ fetched = Len(page_ids)
    /\ result' = page_results
    /\ pc' = "done"
    /\ UNCHANGED <<program, process_vars, chat_vars, fault, server_vars>>

InitPages ==
    /\ program = "pages"
    /\ pc = "idle"
    /\ ProcessIdle
    /\ tool_list = <<>>
    /\ NOTION_TOKEN = PyStr(Credentials.env)
    /\ ChatIdle
    /\ result = PyNone
    /\ fault = ""
    /\ notion \in PageSources
    /\ page_id = ""
    /\ max_depth = 0
    /\ stack = <<>>
    /\ blocks = <<>>
    /\ depth = 0
    /\ format = <<>>
    /\ value = PyNone

NextPages ==
    \/ \E token \in {<<>>, Credentials.given} :
          \E ids \in UNION { [1..n -> {"p", "q"}] : n \in 0..MaxPageIds } :
             \E fmt \in {F.markdown, F.plain} : CallPages(token, ids, fmt)
    \/ FetchPage
    \/ ReturnPages

SpecPages == InitPages /\ [][NextPages]_vars

----------------------------------------------------------------------------
(* Vocabulary of the properties. *)

IsPrefix(a, b) == Len(a) <= Len(b) /\ SubSeq(b, 1, Len(a)) = a

Terminated == pc \in {"done", "raised"}

\* the number of completion responses received so far in the exchange
Responded ==
    IF pc = "await_completion" \/ fault = "APIError" THEN requests - 1 ELSE requests

\* the messages with tool calls recorded in them
ToolCallMessages(ms) ==
    SelectSeq(ms, LAMBDA m : m.role = "assistant" /\ "tool_calls" \in DOMAIN m)

\* ms ends with the messages of the turn msg, answered by results: one
\* assistant message with every call of the turn, then a result per call
EndsWithTurn(ms, before, turn) ==
    LET n == Len(turn.tool_calls) IN
    /\ Len(ms) = before + 1 + n
    /\ ms[before + 1].role = "assistant"
    /\ "tool_calls" \in DOMAIN ms[before + 1]
    /\ Len(ms[before + 1].tool_calls) = n
    /\ \A i \in 1..n :
          /\ ms[before + 1].tool_calls[i].id = turn.tool_calls[i].id
          /\ ms[before + 1 + i].role = "tool"
          /\ ms[before + 1 + i].tool_call_id = turn.tool_calls[i].id

\* every tool message of ms answers a call of the nearest assistant message
\* with tool calls before it
ToolMessagesPaired(ms) ==
    \A j \in 1..Len(ms) :
        ms[j].role = "tool" =>
            \E a \in 1..(j - 1) :
                /\ ms[a].role = "assistant" /\ "tool_calls" \in DOMAIN ms[a]
                /\ \A b \in (a + 1)..(j - 1) : ms[b].role = "tool"
                /\ \E i \in 1..Len(ms[a].tool_calls) :
                       ms[a].tool_calls[i].id = ms[j].tool_call_id

\* the calls handed to the tool executor so far in this turn
Dispatched ==
    inflight \cup { [i |-> k, tc |-> tool_results[k].tc,
                     tname |-> tool_results[k].tname,
                     parsed |-> tool_results[k].parsed] : k \in 1..Len(tool_results) }

\* the mapping the argument text of a call decodes to
Decoded(c) == ParseArguments(c.tc.arguments)

----------------------------------------------------------------------------
(* Properties. *)

\* C1: process_chat_with_ai makes at most 10 completion requests for a chat
\* request, and when each of the 10 responses carried tool calls it returns
\* the fallback string: it neither raises nor issues an 11th request.
C1_CapThenFallback ==
    program = "web" =>
        /\ requests <= 10
        /\ (Terminated /\ Responded = 10 /\ msg.tool_calls # <<>>)
              => (pc = "done" /\ result = PyStr(L.fallback))

\* C2: after a cycle whose response carried n >= 1 tool calls the messages
\* have grown by one assistant message listing the n calls with their ids in
\* order and then n tool results in the same order with matching
\* tool_call_id; so at every completion request each tool result answers a
\* call of the nearest assistant message before it.
C2_TurnShape ==
    /\ (pc = "loop" /\ requests >= 1 /\ msg.tool_calls # <<>>)
          => EndsWithTurn(messages, Len(sent), msg)
    /\ pc = "await_completion" => ToolMessagesPaired(sent)

\* C3: in process_chat_with_ai the calls of a turn run one at a time in
\* request order: a call is in flight only when every call before it has
\* returned, and a completion request is out only when every call of the
\* turn before it has returned and its result message is in the messages.
C3_OneAtATime ==
    program = "web" =>
        /\ Cardinality(inflight) <= 1
        /\ \A c \in inflight :
              /\ Len(tool_results) = c.i - 1
              /\ \A j \in 1..(c.i - 1) : tool_results[j].tc = msg.tool_calls[j]
        /\ (pc = "await_completion" /\ requests > 1) =>
              /\ inflight = {}
              /\ Len(tool_results) = Len(msg.tool_calls)
              /\ \A j \in 1..Len(tool_results) :
                    LET m == messages[Len(messages) - Len(tool_results) + j]
                    IN  /\ m.role = "tool"
                        /\ m.tool_call_id = msg.tool_calls[j].id
                        /\ m.content = _to_str(tool_results[j].result)

C3_SecondCallInFlight ==
    /\ program = "web"
    /\ \E c \in inflight : c.i = 2 /\ Len(tool_results) = 1

\* C4: a tool invocation that fails never aborts the chat request: its
\* error record is appended as the call's tool-result message and the next
\* completion request follows.
C4_ToolFailureNeverAborts ==
    program = "web" =>
        /\ fault # "ToolError"
        /\ (pc = "loop" /\ requests >= 1 /\ msg.tool_calls # <<>>) =>
              \A j \in 1..Len(tool_results) :
                  messages[Len(messages) - Len(tool_results) + j].content
                      = _to_str(tool_results[j].result)

\* C5: whatever the argument text of a tool call, the arguments handed to
\* the tool executor are a mapping, which holds nothing of the text when
\* decoding fails, and handling the text never aborts the request.
C5_ArgumentsAreAMapping ==
    /\ fault # "TypeError"
    /\ \A c \in Dispatched :
          /\ c.parsed.t = "dict"
          /\ ~json_loads(IF c.tc.arguments # <<>> THEN c.tc.arguments
                         ELSE L.empty_object).ok
                => \A k \in 1..Len(c.parsed.d) :
                       c.parsed.d[k][1] \in {PyStr(K.user_id), PyStr(K.cookies)}


\* the text s without its code points in U+D800..U+DFFF
RECURSIVE WithoutSurrogates(_)
WithoutSurrogates(s) ==
    IF s = <<>> THEN <<>>
    ELSE IF Head(s) >= 55296 /\ Head(s) <= 57343 THEN WithoutSurrogates(Tail(s))
    ELSE <<Head(s)>> \o WithoutSurrogates(Tail(s))

\* the text of a response: its content, nothing when it has none
ResponseText(m) == IF m.content.t = "str" THEN m.content.s ELSE <<>>

\* what C6 says of a finished exchange of process_chat_with_ai whose last
\* response carried no tool call, up to the text returned
C6_Counts ==
    /\ requests = Len(ToolCallMessages(messages)) + 1
    /\ iteration = requests
    /\ Len(sent) = Len(messages)
    /\ (requests = 2 /\ Len(messages[3].tool_calls) = 1) =>
          /\ Len(messages) = 4
          /\ messages[3].role = "assistant"
          /\ messages[4].role = "tool"

\* C6 (as stated): when the first k responses carry tool calls and the
\* (k+1)-th none, k+1 requests are made, the loop ends in k+1 cycles and the
\* text of the (k+1)-th response is returned; with one call in the first
\* response and none in the second, one assistant and one tool message are
\* appended before the second request.
C6_ReturnsResponseText ==
    (program = "web" /\ pc = "done" /\ msg.tool_calls = <<>>) =>
        /\ C6_Counts
        /\ result = PyStr(ResponseText(msg))

\* C6 (amended): the same, the text returned being the text of the
\* (k+1)-th response without its surrogate code points.
C6_ReturnsSanitizedText ==
    (program = "web" /\ pc = "done" /\ msg.tool_calls = <<>>) =>
        /\ C6_Counts
        /\ result = PyStr(WithoutSurrogates(ResponseText(msg)))

C6_TwoCyclesSurrogateAnswer ==
    /\ program = "web" /\ pc = "done"
    /\ requests = 2
    /\ Len(messages) = 4
    /\ msg.content = PyStr(<<100, 56320, 111>>)
    /\ result = PyStr(<<100, 111>>)

\* C7: every orchestrator loop is capped: chat_loop as well as
\* process_chat_with_ai stops requesting completions for one user input
\* after a bounded number of requests (the one cap the source states is 10).
C7_EveryLoopCapped ==
    requests <= max_iterations

\* C8: a call to a registry tool with a user_id parameter whose decoded
\* arguments lack user_id (cookies) is dispatched with the caller's identity
\* as user_id (the caller's credential as cookies) when the caller gave one.
C8_IdentityInjected ==
    program = "web" =>
        \A c \in Dispatched :
            (c.tname \in UserIdTools /\ Decoded(c).t = "dict") =>
                /\ (Truthy(user_id) /\ ~HasKey(Decoded(c), K.user_id)) =>
                      /\ c.parsed.t = "dict"
                      /\ HasKey(c.parsed, K.user_id)
                      /\ GetItem(c.parsed, K.user_id) = user_id
                /\ (final_cookies # <<>> /\ ~HasKey(Decoded(c), K.cookies)) =>
                      /\ c.parsed.t = "dict"
                      /\ HasKey(c.parsed, K.cookies)
                      /\ GetItem(c.parsed, K.cookies) = PyStr(final_cookies)

HasSurrogate(s) == \E i \in 1..Len(s) : s[i] >= 55296 /\ s[i] <= 57343

RECURSIVE ValueHasSurrogate(_)
ValueHasSurrogate(v) ==
    CASE v.t = "str"  -> HasSurrogate(v.s)
      [] v.t = "list" -> \E i \in 1..Len(v.l) : ValueHasSurrogate(v.l[i])
      [] v.t = "dict" -> \E i \in 1..Len(v.d) :
                            ValueHasSurrogate(v.d[i][1]) \/ ValueHasSurrogate(v.d[i][2])
      [] v.t = "obj"  -> HasSurrogate(v.text)
      [] OTHER -> FALSE

MessageHasSurrogate(m) ==
    \/ \E f \in DOMAIN m \cap {"content", "tool_call_id", "name"} : HasSurrogate(m[f])
    \/ /\ "tool_calls" \in DOMAIN m
       /\ \E i \in 1..Len(m.tool_calls) :
              \/ HasSurrogate(m.tool_calls[i].id)
              \/ HasSurrogate(m.tool_calls[i].function.name)
              \/ HasSurrogate(m.tool_calls[i].function.arguments)

\* C9: nothing that crosses a serialization boundary holds a surrogate code
\* point: not the messages of a completion request, not the arguments sent
\* to a tool, not the final answer.
C9_NoSurrogateCrosses ==
    /\ \A i \in 1..Len(sent) : ~MessageHasSurrogate(sent[i])
    /\ \A c \in Dispatched : ~ValueHasSurrogate(c.parsed)
    /\ ~ValueHasSurrogate(result)

\* C10: within an exchange the messages are append-only: every step leaves
\* the messages it found as a prefix of the messages it leaves.
C10_AppendOnly ==
    [][IsPrefix(messages, messages')]_vars

C10_TurnAppended ==
    /\ pc = "loop"
    /\ requests >= 1
    /\ Len(messages) > Len(sent)
    /\ IsPrefix(sent, SanitizeMessages(messages))

\* s holds sub as a run of consecutive code points
Contains(s, sub) ==
    \E k \in 0..(Len(s) - Len(sub)) : SubSeq(s, k + 1, k + Len(sub)) = sub

\* the caller's identity is known: a non-empty user id came with the request
IdentityKnown == user_id.t = "str" /\ user_id.s # <<>>

\* the parameters the mandatory block names: user_id="...", and
\* cookies="..." after it when a credential came with the request
NamedParameters ==
    <<117, 115, 101, 114, 95, 105, 100, 61, 34>> \o user_id.s \o <<34>>
      \o (IF final_cookies # <<>>
          THEN <<44, 32, 99, 111, 111, 107, 105, 101, 115, 61, 34>>
                  \o final_cookies \o <<34>>
          ELSE <<>>)

FirstRequest == program = "web" /\ pc = "await_completion" /\ requests = 1

\* C11: at the first completion request of process_chat_with_ai the messages
\* are one system message and one user message whose content is the input
\* text without its surrogate code points, and the system message holds the
\* MANDATORY block with the caller's user id (and cookies, when supplied)
\* verbatim exactly when the caller's identity is known.
C11_SeedMessages ==
    FirstRequest =>
        /\ Len(messages) = 2
        /\ messages[1].role = "system"
        /\ messages[2] = [role |-> "user",
                          content |-> WithoutSurrogates(message)]
        /\ IF IdentityKnown
           THEN Contains(messages[1].content, L.mandatory \o NamedParameters)
           ELSE ~Contains(messages[1].content, L.mandatory)

C11_SeededWithIdentityAndCookies ==
    /\ FirstRequest
    /\ IdentityKnown /\ final_cookies # <<>>
    /\ HasSurrogate(message)

----------------------------------------------------------------------------
(* Properties of the Retriever. *)

RECURSIVE Flatten(_)
Flatten(seqs) == IF seqs = <<>> THEN <<>> ELSE Head(seqs) \o Flatten(Tail(seqs))

\* the items of all the pages of a listing, in page order
AllItems(id) == Flatten(notion.pages[id])

\* some request of the listing of id raises
ListingFails(id) == \E k \in 1..PageCount(notion.pages, id) : <<id, k>> \in notion.fails

\* the children a returned block carries, none when it carries no list
ChildrenOf(b) == IF "children" \in DOMAIN b THEN b.children ELSE <<>>

\* a returned block without what the Retriever attached to it
Listed(b) == [f \in DOMAIN b \ {"children"} |-> b[f]]

\* the subtree under id read to `remaining` more levels from a source in
\* which the branches whose listing raises are empty
RECURSIVE Subtree(_, _)
Subtree(id, remaining) ==
    IF remaining <= 0 THEN AllItems(id)
    ELSE [j \in 1..Len(AllItems(id)) |->
            LET b == AllItems(id)[j]
            IN  IF ~b.has_children THEN b
                ELSE [children |-> IF ListingFails(b.id) THEN <<>>
                                   ELSE Subtree(b.id, remaining - 1)] @@ b]

\* the returned blocks with the level they are at, the page's own children
\* at level 1
RECURSIVE Levels(_, _)
Levels(bs, level) ==
    UNION { {<<level, bs[j]>>} \cup Levels(ChildrenOf(bs[j]), level + 1) :
              j \in 1..Len(bs) }

Fetched == program = "retriever" /\ pc = "fetched"

\* C12: when the listing of a child of the page raises, on its first page or
\* on a later one, the fetch of the page still returns: every child of the
\* page is there in order, the child whose listing raised with an empty
\* children list, every other child with the subtree the source holds for
\* it; the fetch raises only when the page's own listing does.
C12_FaultIsolation ==
    /\ (program = "retriever" /\ pc = "raised") => ListingFails(page_id)
    /\ Fetched =>
          /\ Len(blocks) = Len(AllItems(page_id))
          /\ \A j \in 1..Len(blocks) :
                LET b == AllItems(page_id)[j]
                IN  /\ Listed(blocks[j]) = b
                    /\ (max_depth > 0 /\ b.has_children) =>
                          /\ "children" \in DOMAIN blocks[j]
                          /\ blocks[j].children =
                                IF ListingFails(b.id) THEN <<>>
                                ELSE Subtree(b.id, max_depth - 1)

\* a child listed over two pages raises on the second, its sibling is whole
C12_SecondPageOfChildRaised ==
    /\ Fetched /\ max_depth = 2
    /\ <<"b", 2>> \in notion.fails
    /\ Len(blocks) = 2
    /\ ChildrenOf(blocks[1]) # <<>>
    /\ blocks[2].has_children
    /\ "children" \in DOMAIN blocks[2]
    /\ blocks[2].children = <<>>

\* C13: fetch(page, max_depth) attaches a non-empty children list only to
\* blocks at levels 1..max_depth below the page; the blocks at level
\* max_depth + 1 are returned as the source lists them, has_children kept
\* and no children attached, so with max_depth = 0 no block has children.
C13_DepthBound ==
    Fetched =>
        \A lb \in Levels(blocks, 1) :
            /\ ChildrenOf(lb[2]) # <<>> => lb[1] <= max_depth
            /\ lb[1] <= max_depth + 1
            /\ lb[1] = max_depth + 1 =>
                  /\ "children" \notin DOMAIN lb[2]
                  /\ \E id \in DOMAIN notion.pages :
                        \E j \in 1..Len(AllItems(id)) : lb[2] = AllItems(id)[j]

\* the chain is cut below its second level: "d" keeps has_children
C13_CutBelowMaxDepth ==
    /\ Fetched /\ max_depth = 1
    /\ \E lb \in Levels(blocks, 1) :
          lb[1] = 2 /\ lb[2].has_children /\ "children" \notin DOMAIN lb[2]
    /\ \E lb \in Levels(blocks, 1) : lb[1] = 1 /\ ChildrenOf(lb[2]) # <<>>

\* C14: the requests for one listing follow the cursor: a request with a
\* cursor comes right after the request of the same block that was answered
\* with that cursor; an activation that has left its pagination loop, after
\* however many pages the listing has, holds exactly the items of all the
\* pages in page order; and the returned children of the page are these.
C14_Pagination ==
    /\ \A n \in 1..Len(notion.calls) :
          LET c == notion.calls[n]
          IN  c[2] # PyNone =>
                 /\ n > 1
                 /\ notion.calls[n - 1][1] = c[1]
                 /\ LET r == children_list(notion, c[1], notion.calls[n - 1][2])
                    IN  r.ok /\ r.resp.has_more /\ r.resp.next_cursor = c[2]
    /\ \A k \in 1..Len(stack) :
          stack[k].phase = "enrich" => stack[k].results = AllItems(stack[k].block_id)
    /\ Fetched =>
          [j \in 1..Len(blocks) |-> Listed(blocks[j])] = AllItems(page_id)

\* the three pages of the chain's top listing were read
C14_ThreePagesRead ==
    /\ Fetched
    /\ Len(notion.pages[page_id]) = 3
    /\ Len(blocks) = 3
    /\ \E n \in 1..Len(notion.calls) : notion.calls[n] = <<page_id, PyInt(3)>>

Finished == program = "retriever" /\ pc \in {"fetched", "raised"}

\* an activation is there only if its caller had descent left
NoDescentAtDepthZero ==
    \A k \in 2..Len(stack) : stack[k - 1].max_depth > 0

\* C15: whatever the source, cyclic ones included, a fetch comes to an end,
\* and no block that was reached with no descent left is given an
\* activation of its own, whatever its has_children flag says.
C15_Terminates == <>Finished /\ []NoDescentAtDepthZero

\* the cyclic source was fetched, and the block that closes the cycle is
\* returned with has_children and without children
C15_CycleCut ==
    /\ Fetched /\ max_depth = 1
    /\ "r" \in {notion.pages[id][1][1].id : id \in {"a"} \cap DOMAIN notion.pages}
    /\ \E lb \in Levels(blocks, 1) :
          lb[2].id = "r" /\ lb[2].has_children /\ "children" \notin DOMAIN lb[2]

----------------------------------------------------------------------------
(* Properties of the Renderer. *)

\* the places of the blocks of a tree: <<j>> is the j-th block, p \o <<j>>
\* the j-th child of the block at p
RECURSIVE Paths(_)
Paths(blks) ==
    UNION { {<<j>>} \cup { <<j>> \o q : q \in Paths(ChildrenOf(blks[j])) } :
              j \in 1..Len(blks) }

RECURSIVE NodeAt(_, _)
NodeAt(blks, p) ==
    IF Len(p) = 1 THEN blks[p[1]]
    ELSE NodeAt(ChildrenOf(blks[p[1]]), Tail(p))

\* p comes before q in document order: a block before the blocks below it,
\* and before its later siblings and what is below those
Before(p, q) ==
    \/ Len(p) < Len(q) /\ SubSeq(q, 1, Len(p)) = p
    \/ \E i \in 1..Len(p) :
          /\ i <= Len(q)
          /\ p[i] < q[i]
          /\ \A j \in 1..(i - 1) : p[j] = q[j]

RECURSIVE InOrder(_)
InOrder(ps) ==
    IF ps = {} THEN <<>>
    ELSE LET first == CHOOSE p \in ps : \A q \in ps \ {p} : Before(p, q)
         IN  <<first>> \o InOrder(ps \ {first})

PreOrder == InOrder(Paths(blocks))

\* level of the block at p when the outermost blocks are rendered at depth
LevelOf(p) == depth + Len(p) - 1

Rendered == program = "renderer" /\ pc = "rendered"
md_lines == [i \in 1..Len(result.l) |-> result.l[i].s]

\* C16: the lines of a rendering are the lines of every block of the tree,
\* each block once, in document order: a block, then everything below it
\* one level deeper, then its next sibling.
C16_PreOrder ==
    Rendered =>
        md_lines = Flatten([k \in 1..Len(PreOrder) |->
                              BlockLines(NodeAt(blocks, PreOrder[k]),
                                         Indent(LevelOf(PreOrder[k])))])

\* a block with a child that has a child and a later sibling, then a sibling
C16_NestedSiblingsRendered ==
    /\ Rendered
    /\ Len(blocks) = 2
    /\ Paths(blocks) = {<<1>>, <<1, 1>>, <<1, 1, 1>>, <<1, 2>>, <<2>>}
    /\ Len(md_lines) = 5

\* lines a block yields: three for a code block, one for any other
LineCount(blk) == IF blk.type = BT.code THEN 3 ELSE 1

RECURSIVE Sum(_)
Sum(ns) == IF ns = <<>> THEN 0 ELSE Head(ns) + Sum(Tail(ns))

\* the lines of the rendering that belong to the k-th block in document order
EmittedFor(k) ==
    LET before == Sum([j \in 1..(k - 1) |-> LineCount(NodeAt(blocks, PreOrder[j]))])
    IN  SubSeq(md_lines, before + 1,
               before + LineCount(NodeAt(blocks, PreOrder[k])))

\* line starts with n spaces and the code point after them is no space
IndentedBy(line, n) ==
    /\ Len(line) >= n
    /\ \A i \in 1..n : line[i] = 32
    /\ Len(line) > n => line[n + 1] # 32

\* C17: every line of the rendering that belongs to a block at level d starts
\* with exactly 2 * d spaces, whatever the block's type and for each of the
\* lines of a block that has several.
C17_Indentation ==
    Rendered =>
        \A k \in 1..Len(PreOrder) :
            \A i \in 1..Len(EmittedFor(k)) :
                IndentedBy(EmittedFor(k)[i], 2 * LevelOf(PreOrder[k]))

\* text and caption of a block
TextOf(blk) ==
    _rich_text_to_plain(Get(Get(blk, "data", [rich_text |-> <<>>]), "rich_text", <<>>))
CaptionOf(blk) ==
    _rich_text_to_plain(Get(Get(blk, "data", [caption |-> <<>>]), "caption", <<>>))

\* the icon glyph of a callout, the light bulb when it has none
IconOf(blk) ==
    LET icon == Get(Get(blk, "data", [rich_text |-> <<>>]), "icon", [type |-> "none"])
    IN  IF "emoji" \in DOMAIN icon /\ icon.emoji # <<>> THEN icon.emoji
        ELSE <<128161>>

\* the type table; image gives the line of an image block
TypeTable(blk, image) ==
    LET t == blk.type
        text == TextOf(blk)
        data == Get(blk, "data", [rich_text |-> <<>>])
    IN  CASE t = BT.heading_1 -> << <<35, 32>> \o text >>
          [] t = BT.heading_2 -> << <<35, 35, 32>> \o text >>
          [] t = BT.heading_3 -> << <<35, 35, 35, 32>> \o text >>
          [] t = BT.paragraph -> << text >>
          [] t = BT.bulleted_list_item -> << <<45, 32>> \o text >>
          [] t = BT.numbered_list_item -> << <<49, 46, 32>> \o text >>
          [] t = BT.to_do ->
                << (IF Get(data, "checked", FALSE)
                    THEN <<45, 32, 91, 120, 93, 32>>
                    ELSE <<45, 32, 91, 32, 93, 32>>) \o text >>
          [] t = BT.quote -> << <<62, 32>> \o text >>
          [] t = BT.callout -> << IconOf(blk) \o <<32>> \o text >>
          [] t = BT.code ->
                << <<96, 96, 96>> \o Get(data, "language", <<>>), text,
                   <<96, 96, 96>> >>
          [] t = BT.toggle -> << <<9656, 32>> \o text >>
          [] t = BT.divider -> << <<45, 45, 45>> >>
          [] t = BT.image -> << image >>
          [] OTHER -> << rstrip(<<91>> \o t \o <<93, 32>> \o text) >>

\* a line without its indentation
RECURSIVE AfterIndent(_)
AfterIndent(line) ==
    IF line # <<>> /\ Head(line) = 32 THEN AfterIndent(Tail(line)) ELSE line

EmittedAfterIndent(k) ==
    [i \in 1..Len(EmittedFor(k)) |-> AfterIndent(EmittedFor(k)[i])]

\* "![image]" + two spaces + caption
ImageLine(blk) == <<33, 91, 105, 109, 97, 103, 101, 93, 32, 32>> \o CaptionOf(blk)

\* C18 as stated: after its indentation every line of a block is the line
\* the type table gives for the block's type, an image being "![image]",
\* two spaces and the caption.
C18_TypeTable ==
    Rendered =>
        \A k \in 1..Len(PreOrder) :
            LET blk == NodeAt(blocks, PreOrder[k])
            IN  EmittedAfterIndent(k) = TypeTable(blk, ImageLine(blk))

\* C18 as amended: the same, the line of an image being "![image]", two
\* spaces and the caption with trailing whitespace trimmed, which is
\* "![image]" alone for an image without caption.
C18_TypeTableImageTrimmed ==
    Rendered =>
        \A k \in 1..Len(PreOrder) :
            LET blk == NodeAt(blocks, PreOrder[k])
            IN  EmittedAfterIndent(k) = TypeTable(blk, rstrip(ImageLine(blk)))

\* an image without caption one level down was rendered as "  ![image]"
C18_ImageWithoutCaptionRendered ==
    /\ Rendered
    /\ \E k \in 1..Len(PreOrder) :
          LET blk == NodeAt(blocks, PreOrder[k])
          IN  /\ blk.type = BT.image
              /\ CaptionOf(blk) = <<>>
              /\ LevelOf(PreOrder[k]) = 1
              /\ EmittedFor(k) = << <<32, 32, 33, 91, 105, 109, 97, 103, 101, 93>> >>

Markers ==
    << <<35, 32>>, <<35, 35, 32>>, <<35, 35, 35, 32>>,
       <<45, 32, 91, 120, 93, 32>>, <<45, 32, 91, 32, 93, 32>> >>

\* the orders the five removals can be applied in
Orders ==
    { o \in [1..5 -> 1..5] : \A i, j \in 1..5 : o[i] = o[j] => i = j }

RECURSIVE RemoveInOrder(_, _, _)
RemoveInOrder(str, o, n) ==
    IF n > 5 THEN str
    ELSE RemoveInOrder(replace(str, Markers[o[n]]), o, n + 1)

Reduced == program = "renderer" /\ pc = "done" /\ lower(format) = F.plain

\* the structured text of the document, before any reduction
StructuredText == strip(join(<<10>>, _blocks_to_markdown(blocks, 0)))

\* C19: the plain text a tool returns is the structured text with the five
\* markers removed, the same whatever the order of the removals, and holds
\* none of them any more; a page that is one heading of level 2 or 3 is
\* reduced to the heading's text.
C19_ReducedOrderIndependent ==
    Reduced =>
        /\ \A o \in Orders : result.s = RemoveInOrder(StructuredText, o, 1)
        /\ (Len(blocks) = 1 /\ blocks[1].type \in {BT.heading_2, BT.heading_3}
              /\ "children" \notin DOMAIN blocks[1])
              => result.s = TextOf(blocks[1])

----------------------------------------------------------------------------
(* Properties of _sanitize. *)

\* the tree v with the surrogate code points taken out of every string and
\* every string key, and everything else where it was
RECURSIVE Kept(_)
Kept(v) ==
    CASE v.t = "str" -> PyStr(WithoutSurrogates(v.s))
      [] v.t = "list" -> PyList([i \in 1..Len(v.l) |-> Kept(v.l[i])])
      [] v.t = "dict" ->
            PyDict([i \in 1..Len(v.d) |->
                      << IF v.d[i][1].t = "str"
                         THEN PyStr(WithoutSurrogates(v.d[i][1].s))
                         ELSE v.d[i][1],
                         Kept(v.d[i][2]) >>])
      [] OTHER -> v

Sanitized == program = "sanitize" /\ pc = "sanitized"

\* C20: what _sanitize returns for a tree of strings, lists and dicts holds
\* no surrogate code point in any string or string key, and is otherwise
\* the tree it was given: every other code point, every non-string key and
\* every non-string leaf is where it was.
C20_SanitizeKeepsTheRest ==
    Sanitized =>
        /\ ~ValueHasSurrogate(result)
        /\ result = Kept(value)

----------------------------------------------------------------------------
\* C21: _sanitize is idempotent and pure: sanitizing what _sanitize returned
\* returns it again, and a call leaves the value it was given as it was.
C21_IdempotentAndPure ==
    [][/\ program = "sanitize" /\ pc = "idle" /\ pc' = "sanitized"
           => value' = value
       /\ program = "sanitize" /\ pc = "sanitized" /\ pc' = "resanitized"
           => result' = result]_vars

\* a mapping below a list, its key and its string both holding surrogate code
\* points, has been sanitized twice
C21_NestedTreeResanitized ==
    /\ program = "sanitize" /\ pc = "resanitized"
    /\ value = PyList(<< PyDict(<< <<PyStr(<<97, 56320>>),
                                     PyList(<<PyStr(<<55357, 56832, 33>>)>>)>> >>) >>)
    /\ result # value

----------------------------------------------------------------------------
\* the function part of the i-th schema of the startup schema set
FunctionOf(i) == GetItem(openai_tools[i], W.function)

IsObjectSchema(v) ==
    /\ v.t = "dict"
    /\ HasKey(v, W.type)
    /\ GetItem(v, W.type) = PyStr(W.object)

\* C22: once startup_event has returned for a registry of K descriptors,
\* openai_tools has K entries, each with a non-empty name and with a
\* parameters field that is an object schema, and the health endpoint
\* reports K as tools_count.
C22_SchemaSet ==
    program = "startup" =>
        /\ pc \in {"started", "served"} =>
              /\ Len(openai_tools) = Len(tool_list)
              /\ \A i \in 1..Len(openai_tools) :
                    /\ HasKey(FunctionOf(i), W.name)
                    /\ GetItem(FunctionOf(i), W.name).t = "str"
                    /\ GetItem(FunctionOf(i), W.name).s # <<>>
                    /\ HasKey(FunctionOf(i), W.parameters)
                    /\ IsObjectSchema(GetItem(FunctionOf(i), W.parameters))
        /\ pc = "served" =>
              GetItem(result, W.tools_count) = PyInt(Len(tool_list))

\* the schema field of a descriptor: the first of the two field names that
\* is present
FirstPresent(t) ==
    IF HasKey(t, W.inputSchema) THEN GetItem(t, W.inputSchema)
    ELSE IF HasKey(t, W.input_schema) THEN GetItem(t, W.input_schema)
    ELSE EmptyObjectSchema

\* C23: adapting a descriptor always returns a schema; its name is "tool"
\* when the descriptor has no name, its description is the empty string when
\* the descriptor has no description or a null one, and its parameters are
\* the sanitized schema of the first of the two schema fields that is
\* present, or the empty object schema when neither is.
C23_AdaptFallbacks ==
    program = "startup" /\ pc # "idle" /\ Len(tool_list) = 1 =>
        LET t == _to_dict(tool_list[1])
        IN  /\ pc # "raised"
            /\ ~HasKey(t, W.name) => GetItem(FunctionOf(1), W.name) = PyStr(W.tool)
            /\ (~HasKey(t, W.description) \/ GetItem(t, W.description) = PyNone)
                  => GetItem(FunctionOf(1), W.description) = PyStr(<<>>)
            /\ GetItem(FunctionOf(1), W.parameters) = _sanitize(FirstPresent(t))

----------------------------------------------------------------------------
\* the clients constructed for a credential
ConstructedFor(token) ==
    { h \in 1..Len(constructed) : constructed[h] = token }

\* C24: whatever the interleaving of the tool invocations, at most one
\* client is constructed for a credential, the lookups with one credential
\* all return the same client, and an entry of the cache, once added, stays
\* and keeps its client.
C24_CacheExclusive ==
    /\ [](program = "cache" =>
            /\ \A i \in 1..Len(invocations) :
                  Cardinality(ConstructedFor(invocations[i].access_token)) <= 1
            /\ \A i, j \in 1..Len(invocations) :
                  /\ invocations[i].pc = "done"
                  /\ invocations[j].pc = "done"
                  /\ invocations[i].access_token = invocations[j].access_token
                  => invocations[i].handle = invocations[j].handle)
    /\ [][\A k \in DOMAIN notion_clients :
              /\ k \in DOMAIN notion_clients'
              /\ notion_clients'[k] = notion_clients[k]]_vars

----------------------------------------------------------------------------
\* the turn request r appended in cycle n
TurnOf(r, n, seq) ==
    /\ Len(seq) >= 2
    /\ seq[1] = Message("assistant", r, n)
    /\ \A i \in 2..Len(seq) : seq[i] = Message("tool", r, n)

\* C25: whatever the interleaving of the chat requests, every message of a
\* sequence a request sends to the completion service was appended by that
\* request, and what it sends in a cycle is what it sent in the cycle before
\* followed by the one turn of that cycle.
C25_OwnMessages ==
    program = "chats" =>
        \A r \in 1..MaxRequests :
            LET sent_r == chats[r].sent
            IN  /\ \A n \in 1..Len(sent_r) : \A i \in 1..Len(sent_r[n]) :
                      sent_r[n][i].by = r
                /\ \A n \in 1..(Len(sent_r) - 1) :
                      /\ IsPrefix(sent_r[n], sent_r[n + 1])
                      /\ TurnOf(r, n, SubSeq(sent_r[n + 1], Len(sent_r[n]) + 1,
                                             Len(sent_r[n + 1])))

\* two requests have each sent their messages twice and both await a tool
C25_TwoRequestsInterleaved ==
    /\ program = "chats"
    /\ \A r \in 1..2 :
          /\ chats[r].pc = "await"
          /\ Len(chats[r].sent) = 2

----------------------------------------------------------------------------
\* lines 305-323 of web_server.py: what chat_endpoint answers once
\* process_chat_with_ai has returned or raised
chat_endpoint ==
    IF pc = "done"
    THEN [status_code |-> 200, response |-> result, status |-> "success"]
    ELSE [status_code |-> 500, detail |-> fault]

\* a tool that reads NOTION_TOKEN was called in the exchange and answered
CredentialNeeded ==
    \E i \in 1..Len(messages) :
        messages[i].role = "tool" /\ messages[i].name \in SyncTools

\* C26: a chat request ends with a failure that carries a message when the
\* tool client is not initialised or when a tool needed the content-source
\* credential and it is absent; every other chat request ends with a
\* response of status "success".
C26_ConfigurationFailures ==
    (program = "web" /\ Terminated) =>
        IF ~mcp_client \/ (~Truthy(NOTION_TOKEN) /\ CredentialNeeded)
        THEN chat_endpoint.status_code = 500 /\ chat_endpoint.detail # ""
        ELSE chat_endpoint.status_code = 200 /\ chat_endpoint.status = "success"

----------------------------------------------------------------------------
\* C27: get_complete_notion_pages_with_token, called with a non-empty token
\* and a non-empty list of page ids, returns one entry per page id, in the
\* order of the ids; the entry of a page whose retrieval fails has success
\* false and an error message, and the pages after it are retrieved as they
\* would be without it.
C27_OneEntryPerPage ==
    (program = "pages" /\ pc = "done" /\ access_token # <<>> /\ page_ids # <<>>) =>
        /\ Len(result) = Len(page_ids)
        /\ \A i \in 1..Len(result) :
              /\ result[i].page_id = page_ids[i]
              /\ IF notion[page_ids[i]].page /\ "blocks" \in DOMAIN notion[page_ids[i]]
                 THEN /\ result[i].success
                      /\ result[i].title = notion[page_ids[i]].title
                      /\ result[i].content # <<>>
                 ELSE /\ ~result[i].success
                      /\ "error" \in DOMAIN result[i]
                      /\ result[i].error # ""

\* three ids were asked for, the second is a page whose blocks cannot be
\* listed, and the third came back with its content
C27_PageAfterFailureRetrieved ==
    /\ program = "pages" /\ pc = "done"
    /\ page_ids = <<"q", "p", "q">>
    /\ notion["p"].page /\ "blocks" \notin DOMAIN notion["p"]
    /\ Len(result) = 3
    /\ result[3].success

----------------------------------------------------------------------------
\* C28: when the dispatch of a tool call of a turn raises in
\* process_chat_with_ai, no message of that turn has been appended: the
\* messages are those sent in the completion request of the cycle, whatever
\* calls of the turn returned before.
C28_TurnAllOrNothing ==
    (program = "web" /\ pc = "raised" /\ fault \in {"ToolError", "TypeError"}) =>
        SanitizeMessages(messages) = sent

\* the second call of a turn raised after the first had returned
C28_RaisedAfterAReturn ==
    /\ program = "web" /\ pc = "raised" /\ fault = "ToolError"
    /\ Len(msg.tool_calls) = 2
    /\ Len(tool_results) = 1
    /\ tool_results[1].result = R.ok

\* C29: the identity injection leaves what the caller supplied: a user_id
\* or cookies field of the decoded arguments is dispatched with its value,
\* the arguments of a tool outside the three named ones are dispatched as
\* decoded, and so are all arguments when the request has no user id.
C29_InjectionKeepsSupplied ==
    program = "web" =>
        \A c \in Dispatched :
            /\ Decoded(c).t = "dict" =>
                  \A k \in {K.user_id, K.cookies} :
                      HasKey(Decoded(c), k) =>
                          /\ HasKey(c.parsed, k)
                          /\ GetItem(c.parsed, k) = GetItem(Decoded(c), k)
            /\ c.tname \notin AutoAuthTools => c.parsed = Decoded(c)
            /\ ~Truthy(user_id) => c.parsed = Decoded(c)

\* a call of get_user_info that names a user id and cookies of its own was
\* dispatched for a caller with another user id and cookies
C29_OwnIdentityDispatched ==
    /\ program = "web"
    /\ Truthy(user_id) /\ final_cookies # <<>>
    /\ \E c \in Dispatched :
          /\ c.tname = T.get_user_info
          /\ Decoded(c) = A.own_auth
          /\ GetItem(c.parsed, K.user_id) # user_id
          /\ GetItem(c.parsed, K.cookies) # PyStr(final_cookies)

====
